---- MODULE Spec2Model ----
(***************************************************************************)
(* Complexity scoring of oxlint-plugin-complexity.                         *)
(*                                                                         *)
(* One depth-first walk of a syntax tree drives three visitor instances in *)
(* lockstep: the standalone cyclomatic visitor, the standalone cognitive   *)
(* visitor and the combined visitor.  The tree is produced while it is     *)
(* walked: every Enter action picks the next child of the innermost open   *)
(* node, so every well-formed tree within the bounds is walked.            *)
(*                                                                         *)
(* The walker calls, for a node, the handler of the node's type and then   *)
(* the '*' handler, and on leave the ':exit' handler of the type and then  *)
(* '*:exit' (walkWithVisitor).  Nodes on which no handler of any visitor   *)
(* does anything (a function body's block, an expression statement, an     *)
(* operand that is an identifier and not a nesting region) are not walked. *)
(***************************************************************************)
EXTENDS Integers, Sequences, FiniteSets, TLC

\* Bound on the number of nodes of a walked tree (the program node first),
\* not counting the childless nodes that have no handler.
MaxNodes == 5
\* Bound on the number of cases of a switch statement.
MaxCases == 1
\* Bound on the number of logical expressions below a logical expression
\* along its right operands.
MaxSpine == 0

BASE_FUNCTION_COMPLEXITY == 1
DEFAULT_COMPLEXITY_INCREMENT == 1

LOGICAL_OPERATORS == {"&&", "||", "??"}
LOGICAL_ASSIGNMENT_OPERATORS == {"||=", "&&=", "??="}
DEFAULT_VALUE_OPERATORS == {"||", "??"}
LITERAL_TYPES == {"Literal", "ArrayExpression", "ObjectExpression"}
CALL_APPLY_BIND == {"call", "apply", "bind"}

FunctionTypes == {"FunctionDeclaration", "FunctionExpression", "ArrowFunctionExpression"}
LoopTypes == {"ForStatement", "ForInStatement", "ForOfStatement", "WhileStatement",
              "DoWhileStatement"}
JumpTypes == {"BreakStatement", "ContinueStatement"}

\* Node types that take any number of children, one after the other.
ListTypes == FunctionTypes \cup {"Program", "BlockStatement", "SwitchCase", "CallExpression"}

(***************************************************************************)
(* Nodes.  A node is known by its reference <<id of the parent, the slot   *)
(* of the parent it fills, index in that slot>>, which the parent can name *)
(* before the child is walked (node.consequent, node.body, node.cases[i]). *)
(***************************************************************************)
RootRef == <<0, "root", 0>>

Blank ==
  [id |-> 1, ref |-> RootRef, type |-> "Program", phase |-> 0, n |-> 0,
   name |-> "", operator |-> "", alternate |-> "none", ncases |-> 0,
   test |-> FALSE, left |-> "", spine |-> <<>>, rightEnd |-> "",
   callee |-> [kind |-> "", name |-> "", prop |-> ""], label |-> FALSE]

ChildRef(node, role, idx) == <<node.id, role, idx>>
RoleOf(node) == node.ref[2]

Last(s) == s[Len(s)]
Front(s) == SubSeq(s, 1, Len(s) - 1)

RECURSIVE Sum(_)
Sum(points) ==
  IF points = <<>> THEN 0 ELSE points[1].complexity + Sum(Tail(points))

createComplexityPoint(loc, message, amount, nestingLevel) ==
  [complexity |-> amount + nestingLevel,
   location |-> loc,
   message |-> IF nestingLevel > 0
               THEN <<amount + nestingLevel, nestingLevel, message>>
               ELSE <<amount, 0, message>>]

getFunctionName(node, parent) ==
  IF node.name # "" THEN node.name
  ELSE IF parent.type = "VariableDeclarator" /\ parent.name # "" THEN parent.name
  ELSE IF parent.type = "AssignmentExpression" /\ parent.left # "" THEN parent.left
  ELSE IF node.type = "ArrowFunctionExpression" THEN "<arrow>" ELSE "<anonymous>"

(***************************************************************************)
(* Pattern predicates of the cognitive scorer.  path is the sequence of    *)
(* open nodes above the node (its parent last).                            *)
(***************************************************************************)
isElseIf(node, parent) ==
  parent.type = "IfStatement" /\ RoleOf(node) = "alternate"

\* The type of the node at the end of the chain of right operands whose
\* operators are among operators.
RECURSIVE SpineEnd(_, _, _)
SpineEnd(spine, rightEnd, operators) ==
  IF spine # <<>> /\ spine[1] \in operators
  THEN SpineEnd(Tail(spine), rightEnd, operators)
  ELSE IF spine # <<>> THEN "LogicalExpression" ELSE rightEnd

getRightmostInChain(node, operators) == SpineEnd(node.spine, node.rightEnd, operators)

\* Index in chain (the open nodes followed by the node itself) of the root
\* of the chain that the node at index i belongs to.
RECURSIVE getChainRoot(_, _, _)
getChainRoot(chain, i, operators) ==
  IF i > 1 /\ chain[i - 1].type = "LogicalExpression"
           /\ chain[i - 1].operator \in operators
  THEN getChainRoot(chain, i - 1, operators)
  ELSE i

\* Source text of the left operand of a logical expression: the name of an
\* identifier, or the text of a compound expression, which equals no name.
LeftText(node) == IF node.left # "" THEN node.left ELSE "<compound>"

\* A variant that does not look at the rightmost operand.
isDefaultValuePattern_anyRight(node, path) ==
  IF node.operator \notin DEFAULT_VALUE_OPERATORS THEN FALSE
  ELSE LET chain == Append(path, node)
           r == getChainRoot(chain, Len(chain), DEFAULT_VALUE_OPERATORS)
           root == chain[r]
           parent == chain[r - 1]
       IN IF parent.type = "VariableDeclarator" THEN TRUE
          ELSE IF parent.type = "AssignmentExpression"
               THEN LeftText(root) = parent.left
               ELSE FALSE

isDefaultValuePattern(node, path) ==
  IF node.operator \notin DEFAULT_VALUE_OPERATORS THEN FALSE
  ELSE IF getRightmostInChain(node, DEFAULT_VALUE_OPERATORS) \notin LITERAL_TYPES THEN FALSE
  ELSE LET chain == Append(path, node)
           r == getChainRoot(chain, Len(chain), DEFAULT_VALUE_OPERATORS)
           root == chain[r]
           parent == chain[r - 1]
       IN IF parent.type = "VariableDeclarator" THEN TRUE
          ELSE IF parent.type = "AssignmentExpression"
               THEN LeftText(root) = parent.left
               ELSE FALSE

isJsxShortCircuit(node) ==
  IF node.operator # "&&" THEN FALSE
  ELSE getRightmostInChain(node, {"&&"}) \in {"JSXElement", "JSXFragment"}

isRecursiveCall(node, functionName) ==
  LET callee == node.callee IN
  \/ callee.kind = "Identifier" /\ callee.name = functionName
  \/ callee.kind = "Member" /\ callee.name = functionName /\ callee.prop \in CALL_APPLY_BIND
  \/ callee.kind = "ThisMember" /\ callee.name = functionName
  \/ callee.kind = "ThisMemberMember" /\ callee.prop \in CALL_APPLY_BIND
       /\ callee.name = functionName

(***************************************************************************)
(* Shared scope management (createComplexityVisitor).  A scope stack is a  *)
(* sequence of scopes, the current scope last.                             *)
(***************************************************************************)
addComplexity(stack, loc, message, amount) ==
  IF stack = <<>> THEN stack
  ELSE [stack EXCEPT ![Len(stack)].points =
          Append(@, createComplexityPoint(loc, message, amount, 0))]

(***************************************************************************)
(* Standalone cyclomatic visitor.                                          *)
(***************************************************************************)
cyc_createScope(name) == [name |-> name, points |-> <<>>]

\* A variant that leaves the base complexity out.
cyc_result_noBase(scope) == [total |-> Sum(scope.points), points |-> scope.points]

cyc_result(scope) ==
  [total |-> Sum(scope.points) + BASE_FUNCTION_COMPLEXITY, points |-> scope.points]

(***************************************************************************)
(* Standalone cognitive visitor.                                           *)
(***************************************************************************)
cog_createScope(name) ==
  [name |-> name, points |-> <<>>, nestingLevel |-> 0, nestingNodes |-> {},
   hasRecursiveCall |-> FALSE]

handleNestingEnter(stack, ref) ==
  IF stack = <<>> \/ ref \notin Last(stack).nestingNodes THEN stack
  ELSE [stack EXCEPT ![Len(stack)].nestingLevel = @ + 1]

handleNestingExit(stack, ref) ==
  IF stack = <<>> \/ ref \notin Last(stack).nestingNodes THEN stack
  ELSE [stack EXCEPT ![Len(stack)].nestingLevel = @ - 1,
                     ![Len(stack)].nestingNodes = @ \ {ref}]

addStructuralComplexity(stack, loc, message) ==
  IF stack = <<>> THEN stack
  ELSE [stack EXCEPT ![Len(stack)].points =
          Append(@, createComplexityPoint(loc, message, DEFAULT_COMPLEXITY_INCREMENT,
                                          Last(stack).nestingLevel))]

addNestingNode(stack, ref) ==
  IF stack = <<>> THEN stack
  ELSE [stack EXCEPT ![Len(stack)].nestingNodes = @ \cup {ref}]

\* A variant that weights an else-if by the nesting level.
handleIfStatement_weighted(stack, node, parent) ==
  LET s1 == IF isElseIf(node, parent)
            THEN addStructuralComplexity(stack, node.ref, "else if")
            ELSE addStructuralComplexity(stack, node.ref, "if")
      s2 == addNestingNode(s1, ChildRef(node, "consequent", 1))
      alt == ChildRef(node, "alternate", 1)
  IN IF node.alternate \notin {"none", "IfStatement"}
     THEN addComplexity(addNestingNode(s2, alt), alt, "else", 1)
     ELSE s2

handleIfStatement(stack, node, parent) ==
  LET s1 == IF isElseIf(node, parent)
            THEN addComplexity(stack, node.ref, "else if", 1)
            ELSE addStructuralComplexity(stack, node.ref, "if")
      s2 == addNestingNode(s1, ChildRef(node, "consequent", 1))
      alt == ChildRef(node, "alternate", 1)
  IN IF node.alternate \notin {"none", "IfStatement"}
     THEN addComplexity(addNestingNode(s2, alt), alt, "else", 1)
     ELSE s2

\* The message texts that the handlers build from an operator, a keyword or
\* a node type (the name of the label of a jump is left out).
LogicalMessage(operator) ==
  CASE operator = "&&" -> "logical operator '&&'"
    [] operator = "||" -> "logical operator '||'"
    [] operator = "??" -> "logical operator '??'"

JumpMessage(keyword) ==
  IF keyword = "break" THEN "break to label" ELSE "continue to label"

NestedMessage(type) ==
  IF type = "ArrowFunctionExpression" THEN "nested arrow function" ELSE "nested function"

\* A variant that gives a point to every operator of a chain.
handleLogicalExpression_perOperator(stack, node, path) ==
  IF stack = <<>> THEN stack
  ELSE IF isJsxShortCircuit(node) \/ isDefaultValuePattern(node, path) THEN stack
  ELSE addComplexity(stack, node.ref, LogicalMessage(node.operator), 1)

handleLogicalExpression(stack, node, path) ==
  IF stack = <<>> THEN stack
  ELSE IF isJsxShortCircuit(node) \/ isDefaultValuePattern(node, path) THEN stack
  ELSE LET parent == Last(path)
           isContinuationOfSameOperator ==
             parent.type = "LogicalExpression" /\ parent.operator = node.operator
       IN IF ~isContinuationOfSameOperator
          THEN addComplexity(stack, node.ref, LogicalMessage(node.operator), 1)
          ELSE stack

handleLabeledJump(stack, node, keyword) ==
  IF node.label THEN addComplexity(stack, node.ref, JumpMessage(keyword), 1)
  ELSE stack

LoopMessage(type) ==
  CASE type = "ForStatement" -> "for"
    [] type = "ForInStatement" -> "for...in"
    [] type = "ForOfStatement" -> "for...of"
    [] type = "WhileStatement" -> "while"
    [] type = "DoWhileStatement" -> "do...while"

cog_createLoopHandler(stack, node) ==
  addNestingNode(addStructuralComplexity(stack, node.ref, LoopMessage(node.type)),
                 ChildRef(node, "body", 1))

RECURSIVE AddCases(_, _, _)
AddCases(stack, node, k) ==
  IF k = 0 THEN stack
  ELSE addNestingNode(AddCases(stack, node, k - 1), ChildRef(node, "cases", k))

cog_SwitchStatement(stack, node) ==
  AddCases(addStructuralComplexity(stack, node.ref, "switch"), node, node.ncases)

cog_CatchClause(stack, node) ==
  addNestingNode(addStructuralComplexity(stack, node.ref, "catch"),
                 ChildRef(node, "body", 1))

cog_ConditionalExpression(stack, node) ==
  addNestingNode(
    addNestingNode(addStructuralComplexity(stack, node.ref, "ternary operator"),
                   ChildRef(node, "consequent", 1)),
    ChildRef(node, "alternate", 1))

cog_CallExpression(stack, node) ==
  IF stack # <<>> /\ Last(stack).name # "" /\ isRecursiveCall(node, Last(stack).name)
  THEN [stack EXCEPT ![Len(stack)].hasRecursiveCall = TRUE]
  ELSE stack

\* A variant that puts the nested-function point on the new scope.
cog_onEnterFunction_own(stack, level, node, name) ==
  LET pushed == Append(stack, cog_createScope(name))
  IN IF stack # <<>> /\ level > 0
     THEN [pushed EXCEPT ![Len(pushed)].points =
             Append(@, createComplexityPoint(node.ref, NestedMessage(node.type),
                                             DEFAULT_COMPLEXITY_INCREMENT, 0))]
     ELSE pushed

\* enterFunction with the cognitive visitor's onEnterFunction: the scope
\* stack after the push, the nested-function point pushed on the parent.
cog_onEnterFunction(stack, level, node, name) ==
  LET pushed == Append(stack, cog_createScope(name))
  IN IF stack # <<>> /\ level > 0
     THEN [pushed EXCEPT ![Len(stack)].points =
             Append(@, createComplexityPoint(node.ref, NestedMessage(node.type),
                                             DEFAULT_COMPLEXITY_INCREMENT, 0))]
     ELSE pushed

\* The popped scope after onExitFunction.
cog_onExitFunction(scope, node) ==
  IF scope.hasRecursiveCall
  THEN [scope EXCEPT !.points =
          Append(@, createComplexityPoint(node.ref, "recursion",
                                          DEFAULT_COMPLEXITY_INCREMENT, 0))]
  ELSE scope

cog_result(scope) == [total |-> Sum(scope.points), points |-> scope.points]

(***************************************************************************)
(* Combined visitor: both metrics in one walk.                             *)
(***************************************************************************)
comb_createScope(name) ==
  [name |-> name, points |-> <<>>, cyclomaticPoints |-> <<>>, cognitivePoints |-> <<>>,
   nestingLevel |-> 0, nestingNodes |-> {}, hasRecursiveCall |-> FALSE]

\* A variant that weights a decision point by the nesting level.
addCyclomatic_weighted(stack, loc, message) ==
  IF stack = <<>> THEN stack
  ELSE [stack EXCEPT ![Len(stack)].cyclomaticPoints =
          Append(@, createComplexityPoint(loc, message, 1, Last(stack).nestingLevel))]

addCyclomatic(stack, loc, message) ==
  IF stack = <<>> THEN stack
  ELSE [stack EXCEPT ![Len(stack)].cyclomaticPoints =
          Append(@, createComplexityPoint(loc, message, 1, 0))]

addCognitive(stack, loc, message) ==
  IF stack = <<>> THEN stack
  ELSE [stack EXCEPT ![Len(stack)].cognitivePoints =
          Append(@, createComplexityPoint(loc, message, DEFAULT_COMPLEXITY_INCREMENT, 0))]

addStructuralCognitive(stack, loc, message) ==
  IF stack = <<>> THEN stack
  ELSE [stack EXCEPT ![Len(stack)].cognitivePoints =
          Append(@, createComplexityPoint(loc, message, DEFAULT_COMPLEXITY_INCREMENT,
                                          Last(stack).nestingLevel))]

comb_addNestingNode(stack, ref) ==
  IF stack = <<>> THEN stack
  ELSE [stack EXCEPT ![Len(stack)].nestingNodes = @ \cup {ref}]

comb_handleNestingEnter(stack, ref) ==
  IF stack = <<>> \/ ref \notin Last(stack).nestingNodes THEN stack
  ELSE [stack EXCEPT ![Len(stack)].nestingLevel = @ + 1]

comb_handleNestingExit(stack, ref) ==
  IF stack = <<>> \/ ref \notin Last(stack).nestingNodes THEN stack
  ELSE [stack EXCEPT ![Len(stack)].nestingLevel = @ - 1,
                     ![Len(stack)].nestingNodes = @ \ {ref}]

comb_handleIfStatement(stack, node, parent) ==
  LET s1 == addCyclomatic(stack, node.ref, "if")
  IN IF isElseIf(node, parent)
     THEN addCognitive(s1, node.ref, "else if")
     ELSE comb_addNestingNode(addStructuralCognitive(s1, node.ref, "if"),
                              ChildRef(node, "consequent", 1))

comb_IfStatementExit(stack, node) ==
  LET s1 == comb_handleNestingExit(stack, ChildRef(node, "consequent", 1))
  IN IF node.alternate \notin {"none", "IfStatement"}
     THEN comb_addNestingNode(addCognitive(s1, node.ref, "else"),
                              ChildRef(node, "alternate", 1))
     ELSE s1

comb_handleLogicalExpression(stack, node, path) ==
  IF stack = <<>> THEN stack
  ELSE IF node.operator \notin LOGICAL_OPERATORS THEN stack
  ELSE LET s1 == addCyclomatic(stack, node.ref, node.operator)
           parent == Last(path)
           isContinuationOfSameOperator ==
             parent.type = "LogicalExpression" /\ parent.operator = node.operator
       IN IF isDefaultValuePattern(node, path) \/ isJsxShortCircuit(node) THEN s1
          ELSE IF ~isContinuationOfSameOperator
               THEN addCognitive(s1, node.ref, LogicalMessage(node.operator))
               ELSE s1

comb_handleLabeledJump(stack, node, keyword) ==
  IF node.label THEN addCognitive(stack, node.ref, JumpMessage(keyword)) ELSE stack

comb_LoopLabel(type) ==
  CASE type = "ForStatement" -> "for"
    [] type = "ForInStatement" -> "for-in"
    [] type = "ForOfStatement" -> "for-of"
    [] type = "WhileStatement" -> "while"
    [] type = "DoWhileStatement" -> "do-while"

comb_LoopEnter(stack, node) ==
  comb_addNestingNode(
    addStructuralCognitive(addCyclomatic(stack, node.ref, comb_LoopLabel(node.type)),
                           node.ref, comb_LoopLabel(node.type)),
    ChildRef(node, "body", 1))

comb_LoopExit(stack, node) == comb_handleNestingExit(stack, ChildRef(node, "body", 1))

comb_SwitchCase(stack, node) ==
  IF node.test THEN addCyclomatic(stack, node.ref, "case") ELSE stack

comb_SwitchStatement(stack, node) ==
  comb_addNestingNode(addStructuralCognitive(stack, node.ref, "switch"), node.ref)

comb_SwitchStatementExit(stack, node) == comb_handleNestingExit(stack, node.ref)

comb_CatchClause(stack, node) ==
  comb_addNestingNode(
    addStructuralCognitive(addCyclomatic(stack, node.ref, "catch"), node.ref, "catch"),
    ChildRef(node, "body", 1))

comb_CatchClauseExit(stack, node) ==
  comb_handleNestingExit(stack, ChildRef(node, "body", 1))

comb_ConditionalExpression(stack, node) ==
  comb_addNestingNode(
    comb_addNestingNode(
      addStructuralCognitive(addCyclomatic(stack, node.ref, "ternary"),
                             node.ref, "ternary operator"),
      ChildRef(node, "consequent", 1)),
    ChildRef(node, "alternate", 1))

comb_AssignmentExpression(stack, node) ==
  IF node.operator \in LOGICAL_ASSIGNMENT_OPERATORS
  THEN addCyclomatic(stack, node.ref, node.operator)
  ELSE stack

\* A variant that gives a point to every recursive call site.
comb_CallExpression_perSite(stack, node) ==
  IF stack = <<>> \/ Last(stack).name = "" THEN stack
  ELSE IF isRecursiveCall(node, Last(stack).name)
       THEN addCognitive([stack EXCEPT ![Len(stack)].hasRecursiveCall = TRUE],
                         node.ref, "recursive call")
       ELSE stack

comb_CallExpression(stack, node) ==
  IF stack = <<>> \/ Last(stack).name = "" THEN stack
  ELSE IF ~Last(stack).hasRecursiveCall /\ isRecursiveCall(node, Last(stack).name)
       THEN addCognitive([stack EXCEPT ![Len(stack)].hasRecursiveCall = TRUE],
                         node.ref, "recursive call")
       ELSE stack

comb_onEnterFunction(stack, level, node, name) ==
  LET pushed == Append(stack, comb_createScope(name))
  IN IF stack # <<>> /\ level > 0
     THEN [pushed EXCEPT ![Len(stack)].cognitivePoints =
             Append(@, createComplexityPoint(node.ref, NestedMessage(node.type),
                                             DEFAULT_COMPLEXITY_INCREMENT, 0))]
     ELSE pushed

\* The result that the combined visitor's onExitFunction reports.
comb_onExitFunction(scope) ==
  [cyclomatic |-> Sum(scope.cyclomaticPoints) + BASE_FUNCTION_COMPLEXITY,
   cognitive |-> Sum(scope.cognitivePoints),
   cyclomaticPoints |-> scope.cyclomaticPoints,
   cognitivePoints |-> scope.cognitivePoints]

(***************************************************************************)
(* The walk.                                                               *)
(***************************************************************************)
VARIABLES
  path,       \* the open nodes, the root first, with their progress
  nextId,     \* number of nodes with children entered so far
  cyc,        \* scope stack of the cyclomatic visitor
  cog,        \* scope stack of the cognitive visitor
  cogLevel,   \* globalFunctionNestingLevel of the cognitive visitor
  comb,       \* scope stack of the combined visitor
  combLevel,  \* globalFunctionNestingLevel of the combined visitor
  family,     \* the node types that the walked tree is made of
  fn,         \* per open function, what the walked part of its body contains
  emitted,    \* the results reported at the latest function exit (<<>>: none yet)
  extraction  \* the extraction analysis: its inputs, its stage and its results

walkVars == <<path, nextId, cyc, cog, cogLevel, comb, combLevel, family, fn, emitted>>

vars == <<path, nextId, cyc, cog, cogLevel, comb, combLevel, family, fn, emitted,
          extraction>>

\* The children that the innermost open node can take next: the slot, the
\* category of node the slot takes, and the node's progress afterwards.
Slot(role, idx, cat, phase, n) ==
  [role |-> role, idx |-> idx, cat |-> cat, phase |-> phase, n |-> n]

Slots(p) ==
  CASE p.type \in ListTypes ->
         {Slot("body", p.n + 1,
               CASE p.type = "Program" -> "top"
                 [] p.type = "CallExpression" -> "expr"
                 [] OTHER -> "any",
               0, p.n + 1)}
    [] p.type = "IfStatement" ->
         (IF p.phase = 0 THEN {Slot("test", 1, "expr", 1, 0)} ELSE {})
         \cup (IF p.phase \in {0, 1} THEN {Slot("consequent", 1, "stmt", 2, 0)} ELSE {})
         \cup (IF p.phase = 2 /\ p.alternate # "none"
               THEN {Slot("alternate", 1,
                          IF p.alternate = "IfStatement" THEN "if" ELSE "stmtNonIf", 3, 0)}
               ELSE {})
    [] p.type \in LoopTypes ->
         IF p.phase = 0 THEN {Slot("body", 1, "stmt", 1, 0)} ELSE {}
    [] p.type = "SwitchStatement" ->
         (IF p.phase = 0 /\ p.n = 0 THEN {Slot("discriminant", 1, "expr", 1, 0)} ELSE {})
         \cup (IF p.n < p.ncases THEN {Slot("cases", p.n + 1, "case", 1, p.n + 1)} ELSE {})
    [] p.type = "CatchClause" ->
         IF p.phase = 0 THEN {Slot("body", 1, "block", 1, 0)} ELSE {}
    [] p.type = "ConditionalExpression" ->
         (IF p.phase = 0 THEN {Slot("test", 1, "expr", 1, 0)} ELSE {})
         \cup (IF p.phase \in {0, 1} THEN {Slot("consequent", 1, "exprReq", 2, 0)} ELSE {})
         \cup (IF p.phase = 2 THEN {Slot("alternate", 1, "exprReq", 3, 0)} ELSE {})
    [] p.type = "LogicalExpression" ->
         IF p.phase = 0 /\ p.left = "" THEN {Slot("left", 1, "logical", 1, 0)}
         ELSE IF p.phase \in {0, 1} /\ p.spine # <<>> THEN {Slot("right", 1, "spine", 2, 0)}
         ELSE {}
    [] p.type = "AssignmentExpression" ->
         IF p.phase = 0 THEN {Slot("right", 1, "expr", 1, 0)} ELSE {}
    [] p.type = "VariableDeclarator" ->
         IF p.phase = 0 THEN {Slot("init", 1, "expr", 1, 0)} ELSE {}
    [] OTHER -> {}

\* A node can be left when the children it must have were walked.
CanExit(p) ==
  CASE p.type = "Program" -> FALSE
    [] p.type = "IfStatement" -> (p.phase = 2 /\ p.alternate = "none") \/ p.phase = 3
    [] p.type \in LoopTypes -> p.phase = 1
    [] p.type = "SwitchStatement" -> p.n = p.ncases
    [] p.type = "CatchClause" -> p.phase = 1
    [] p.type = "ConditionalExpression" -> p.phase = 3
    [] p.type = "LogicalExpression" ->
         (p.left # "" \/ p.phase >= 1) /\ (p.spine = <<>> \/ p.phase = 2)
    [] OTHER -> TRUE

ExprTypes == {"ArrowFunctionExpression", "ConditionalExpression",
              "LogicalExpression", "AssignmentExpression", "CallExpression"}

\* A walked tree is made of the node types of one family: conditionals
\* ("flow"), loops and jumps ("loops"), switch statements ("switch"), logical
\* expressions over && and || ("logic"), logical expressions over || and ??
\* in declarators and plain assignments ("nullish"), or calls, function
\* literals and assignments ("call").
Families == {"flow", "loops", "switch", "logic", "nullish", "call"}

FamilyTypes(f) ==
  CASE f = "flow" ->
         {"FunctionDeclaration", "ArrowFunctionExpression", "BlockStatement",
          "ConditionalExpression", "IfStatement", "ForStatement", "CatchClause"}
    [] f = "loops" ->
         LoopTypes \cup JumpTypes \cup {"FunctionDeclaration"}
    [] f = "switch" ->
         {"FunctionDeclaration", "SwitchStatement", "SwitchCase", "IfStatement",
          "ConditionalExpression", "BreakStatement"}
    [] f = "logic" -> {"FunctionDeclaration", "LogicalExpression"}
    [] f = "nullish" ->
         {"FunctionDeclaration", "VariableDeclarator", "AssignmentExpression",
          "LogicalExpression"}
    [] f = "call" ->
         {"FunctionDeclaration", "ArrowFunctionExpression", "VariableDeclarator",
          "AssignmentExpression", "CallExpression"}

\* The logical operators and the right operands of the trees of a family.
FamilyOperators(f) == IF f = "nullish" THEN DEFAULT_VALUE_OPERATORS ELSE {"&&", "||"}

\* The assignment operators of the trees of a family.
FamilyAssignments(f) ==
  IF f = "nullish" THEN {"="} ELSE {"="} \cup LOGICAL_ASSIGNMENT_OPERATORS

FamilyOperands(f) ==
  IF f = "nullish" THEN {"CallExpression", "ArrayExpression"}
  ELSE {"CallExpression", "JSXElement"}

TypesFor(cat) ==
  CASE cat = "top" -> {"FunctionDeclaration"}
    [] cat = "any" -> (ExprTypes \ {"ArrowFunctionExpression"}) \cup LoopTypes
                        \cup {"FunctionDeclaration", "IfStatement", "SwitchStatement",
                              "CatchClause", "VariableDeclarator", "BlockStatement"}
    [] cat = "stmt" -> LoopTypes \cup {"IfStatement", "SwitchStatement", "BlockStatement"}
    [] cat = "stmtNonIf" -> LoopTypes \cup {"SwitchStatement", "BlockStatement"}
    [] cat = "if" -> {"IfStatement"}
    [] cat = "block" -> {"BlockStatement"}
    [] cat \in {"expr", "exprReq"} -> ExprTypes
    [] cat = "case" -> {"SwitchCase"}
    [] cat \in {"logical", "spine"} -> {"LogicalExpression"}

\* Slots that a childless statement or expression can fill.
LeafCats == {"stmt", "stmtNonIf", "block", "exprReq"}
JumpCats == {"any", "stmt", "stmtNonIf"}

Parent == Last(path)

NewNode(slot, type) ==
  [Blank EXCEPT !.id = nextId + 1,
                !.ref = ChildRef(Parent, slot.role, slot.idx),
                !.type = type]

Advance(slot) == [path EXCEPT ![Len(path)].phase = slot.phase, ![Len(path)].n = slot.n]

Place(slot, node) ==
  /\ nextId < MaxNodes
  /\ node.type \in TypesFor(slot.cat) \cap FamilyTypes(family)
  /\ path' = Append(Advance(slot), node)
  /\ nextId' = nextId + 1

Leave ==
  /\ CanExit(Parent)
  /\ path' = Front(path)
  /\ UNCHANGED nextId

(***************************************************************************)
(* What a function's body contains, told from the tree alone.              *)
(***************************************************************************)
NewFrame(node, name) ==
  [ref |-> node.ref, name |-> name,
   decisions |-> 0,   \* decision points of the cyclomatic formula
   constructs |-> 0,  \* decision constructs, a switch statement included
   structural |-> <<>>, \* <<reference, depth>> of each structural construct
   nested |-> 0,      \* function literals directly inside
   sites |-> 0,       \* self-recursive call sites
   jumps |-> 0,       \* labeled break and continue statements
   elseifs |-> 0, elses |-> 0, elseDepth |-> 0,
   ops |-> 0,         \* logical operator occurrences
   chains |-> 0,      \* logical expressions whose parent is no logical expression
   changes |-> 0,     \* logical expressions under one of another operator
   excluded |-> 0]    \* logical expressions that a pattern exclusion covers

RECURSIVE Bump(_, _)
Bump(f, names) ==
  IF f = <<>> \/ names = <<>> THEN f
  ELSE Bump([f EXCEPT ![Len(f)][names[1]] = @ + 1], Tail(names))

\* A node is a nesting region by the slot it fills.
IsRegion(node, parent) ==
  \/ parent.type = "IfStatement" /\ RoleOf(node) = "consequent"
  \/ parent.type = "IfStatement" /\ RoleOf(node) = "alternate" /\ node.type # "IfStatement"
  \/ parent.type \in LoopTypes \cup {"CatchClause"} /\ RoleOf(node) = "body"
  \/ node.type = "SwitchCase"
  \/ parent.type = "ConditionalExpression" /\ RoleOf(node) \in {"consequent", "alternate"}

\* Number of nesting regions among p[1..i] that belong to the innermost
\* open function.
RECURSIVE RegionDepth(_, _)
RegionDepth(p, i) ==
  IF i <= 1 \/ p[i].type \in FunctionTypes THEN 0
  ELSE (IF IsRegion(p[i], p[i - 1]) THEN 1 ELSE 0) + RegionDepth(p, i - 1)

Depth == RegionDepth(path, Len(path))

Structural(f, node) ==
  IF f = <<>> THEN f
  ELSE [f EXCEPT ![Len(f)].structural = Append(@, <<node.ref, Depth>>)]

\* No extraction analysis is under way during the walk.
NoExtraction == [stage |-> "none"]

WalkInit ==
  /\ path = <<Blank>>
  /\ nextId = 1
  /\ cyc = <<>>
  /\ cog = <<>>
  /\ cogLevel = 0
  /\ comb = <<>>
  /\ combLevel = 0
  /\ family \in Families
  /\ fn = <<>>
  /\ emitted = <<>>

Init ==
  /\ WalkInit
  /\ extraction = NoExtraction

EnterFunction ==
  \E slot \in Slots(Parent), type \in {"FunctionDeclaration", "ArrowFunctionExpression"} :
    LET node == [NewNode(slot, type) EXCEPT
                   !.name = IF type = "FunctionDeclaration" THEN "f" ELSE ""]
        name == getFunctionName(node, Parent)
    IN /\ Place(slot, node)
       /\ cyc' = Append(cyc, cyc_createScope(name))
       /\ cog' = handleNestingEnter(cog_onEnterFunction(cog, cogLevel, node, name), node.ref)
       /\ cogLevel' = cogLevel + 1
       /\ comb' = comb_handleNestingEnter(
                     comb_onEnterFunction(comb, combLevel, node, name), node.ref)
       /\ combLevel' = combLevel + 1
       /\ fn' = Append(Bump(fn, <<"nested">>), NewFrame(node, name))
       /\ UNCHANGED <<family, extraction, emitted>>

\* A variant that reports the top-level functions only.
ExitFunction_topLevelOnly ==
  /\ Parent.type \in FunctionTypes
  /\ Leave
  /\ cyc' = Front(cyc)
  /\ cog' = handleNestingExit(Front(cog), Parent.ref)
  /\ cogLevel' = cogLevel - 1
  /\ comb' = comb_handleNestingExit(Front(comb), Parent.ref)
  /\ combLevel' = combLevel - 1
  /\ fn' = Front(fn)
  /\ UNCHANGED <<family, extraction>>
  /\ emitted' = IF Len(cyc) > 1 THEN emitted
                ELSE <<[cyc |-> cyc_result(Last(cyc)),
                        cog |-> cog_result(cog_onExitFunction(Last(cog), Parent)),
                        comb |-> comb_onExitFunction(Last(comb)),
                        fn |-> Last(fn)]>>

\* A variant in which the cyclomatic visitor keeps the scope of the function.
ExitFunction_scopeKept ==
  /\ Parent.type \in FunctionTypes
  /\ Leave
  /\ cog' = handleNestingExit(Front(cog), Parent.ref)
  /\ cogLevel' = cogLevel - 1
  /\ comb' = comb_handleNestingExit(Front(comb), Parent.ref)
  /\ combLevel' = combLevel - 1
  /\ fn' = Front(fn)
  /\ UNCHANGED <<cyc, family, extraction>>
  /\ emitted' = <<[cyc |-> cyc_result(Last(cyc)),
                   cog |-> cog_result(cog_onExitFunction(Last(cog), Parent)),
                   comb |-> comb_onExitFunction(Last(comb)),
                   fn |-> Last(fn)]>>

\* A variant that leaves the function-nesting depth counters as they are.
ExitFunction_levelKept ==
  /\ Parent.type \in FunctionTypes
  /\ Leave
  /\ cyc' = Front(cyc)
  /\ cog' = handleNestingExit(Front(cog), Parent.ref)
  /\ comb' = comb_handleNestingExit(Front(comb), Parent.ref)
  /\ fn' = Front(fn)
  /\ UNCHANGED <<cogLevel, combLevel, family, extraction>>
  /\ emitted' = <<[cyc |-> cyc_result(Last(cyc)),
                   cog |-> cog_result(cog_onExitFunction(Last(cog), Parent)),
                   comb |-> comb_onExitFunction(Last(comb)),
                   fn |-> Last(fn)]>>

ExitFunction ==
  /\ Parent.type \in FunctionTypes
  /\ Leave
  /\ cyc' = Front(cyc)
  /\ cog' = handleNestingExit(Front(cog), Parent.ref)
  /\ cogLevel' = cogLevel - 1
  /\ comb' = comb_handleNestingExit(Front(comb), Parent.ref)
  /\ combLevel' = combLevel - 1
  /\ fn' = Front(fn)
  /\ UNCHANGED <<family, extraction>>
  /\ emitted' = <<[cyc |-> cyc_result(Last(cyc)),
                   cog |-> cog_result(cog_onExitFunction(Last(cog), Parent)),
                   comb |-> comb_onExitFunction(Last(comb)),
                   fn |-> Last(fn)]>>

EnterIf ==
  \E slot \in Slots(Parent), alternate \in {"none", "IfStatement", "other"} :
    LET node == [NewNode(slot, "IfStatement") EXCEPT !.alternate = alternate]
        elseif == isElseIf(node, Parent)
    IN /\ Place(slot, node)
       /\ cyc' = addComplexity(cyc, node.ref, "if", 1)
       /\ cog' = handleNestingEnter(handleIfStatement(cog, node, Parent), node.ref)
       /\ comb' = comb_handleNestingEnter(comb_handleIfStatement(comb, node, Parent),
                                          node.ref)
       /\ fn' = LET f1 == Bump(fn, <<"decisions", "constructs">>
                                     \o (IF elseif THEN <<"elseifs">> ELSE <<>>)
                                     \o (IF alternate = "other" THEN <<"elses">> ELSE <<>>))
                    f2 == IF elseif THEN f1 ELSE Structural(f1, node)
                IN IF f2 # <<>> /\ (elseif \/ alternate = "other") /\ Depth > 0
                   THEN [f2 EXCEPT ![Len(f2)].elseDepth = Depth]
                   ELSE f2
       /\ UNCHANGED <<cogLevel, combLevel, family, extraction, emitted>>

ExitIf ==
  /\ Parent.type = "IfStatement"
  /\ Leave
  /\ comb' = comb_handleNestingExit(comb_IfStatementExit(comb, Parent), Parent.ref)
  /\ cog' = handleNestingExit(cog, Parent.ref)
  /\ UNCHANGED <<cyc, cogLevel, combLevel, family, extraction, fn, emitted>>

\* Leaving a node of a type for which no visitor has an exit handler.
ExitOther ==
  /\ Parent.type \notin FunctionTypes \cup LoopTypes
                        \cup {"IfStatement", "SwitchStatement", "CatchClause"}
  /\ Leave
  /\ cog' = handleNestingExit(cog, Parent.ref)
  /\ comb' = comb_handleNestingExit(comb, Parent.ref)
  /\ UNCHANGED <<cyc, cogLevel, combLevel, family, extraction, fn, emitted>>

\* Entering a node of a type for which no visitor has a handler.
EnterOther ==
  \E slot \in Slots(Parent), type \in {"BlockStatement", "VariableDeclarator"} :
    LET node == [NewNode(slot, type) EXCEPT
                   !.name = IF type = "VariableDeclarator" THEN "f" ELSE ""]
    IN /\ Place(slot, node)
       /\ cog' = handleNestingEnter(cog, node.ref)
       /\ comb' = comb_handleNestingEnter(comb, node.ref)
       /\ UNCHANGED <<cyc, cogLevel, combLevel, family, extraction, fn, emitted>>

\* Walking a childless node that has no handler: '*' and then '*:exit'.
VisitLeaf ==
  \E slot \in Slots(Parent) :
    LET ref == ChildRef(Parent, slot.role, slot.idx)
    IN /\ slot.cat \in LeafCats
       /\ path' = Advance(slot)
       /\ cog' = handleNestingExit(handleNestingEnter(cog, ref), ref)
       /\ comb' = comb_handleNestingExit(comb_handleNestingEnter(comb, ref), ref)
       /\ UNCHANGED <<nextId, cyc, cogLevel, combLevel, family, extraction, fn, emitted>>

EnterLoop ==
  \E slot \in Slots(Parent), type \in LoopTypes :
    LET node == NewNode(slot, type)
    IN /\ Place(slot, node)
       /\ cyc' = addComplexity(cyc, node.ref, LoopMessage(type), 1)
       /\ cog' = handleNestingEnter(cog_createLoopHandler(cog, node), node.ref)
       /\ comb' = comb_handleNestingEnter(comb_LoopEnter(comb, node), node.ref)
       /\ fn' = Structural(Bump(fn, <<"decisions", "constructs">>), node)
       /\ UNCHANGED <<cogLevel, combLevel, family, extraction, emitted>>

ExitLoop ==
  /\ Parent.type \in LoopTypes
  /\ Leave
  /\ cog' = handleNestingExit(cog, Parent.ref)
  /\ comb' = comb_handleNestingExit(comb_LoopExit(comb, Parent), Parent.ref)
  /\ UNCHANGED <<cyc, cogLevel, combLevel, family, extraction, fn, emitted>>

EnterSwitch ==
  \E slot \in Slots(Parent), ncases \in 1..MaxCases :
    LET node == [NewNode(slot, "SwitchStatement") EXCEPT !.ncases = ncases]
    IN /\ Place(slot, node)
       /\ cog' = handleNestingEnter(cog_SwitchStatement(cog, node), node.ref)
       /\ comb' = comb_handleNestingEnter(comb_SwitchStatement(comb, node), node.ref)
       /\ fn' = Structural(Bump(fn, <<"constructs">>), node)
       /\ UNCHANGED <<cyc, cogLevel, combLevel, family, extraction, emitted>>

ExitSwitch ==
  /\ Parent.type = "SwitchStatement"
  /\ Leave
  /\ cog' = handleNestingExit(cog, Parent.ref)
  /\ comb' = comb_handleNestingExit(comb_SwitchStatementExit(comb, Parent), Parent.ref)
  /\ UNCHANGED <<cyc, cogLevel, combLevel, family, extraction, fn, emitted>>

EnterSwitchCase ==
  \E slot \in Slots(Parent), test \in BOOLEAN :
    LET node == [NewNode(slot, "SwitchCase") EXCEPT !.test = test]
    IN /\ Place(slot, node)
       /\ cyc' = IF node.test THEN addComplexity(cyc, node.ref, "case", 1) ELSE cyc
       /\ cog' = handleNestingEnter(cog, node.ref)
       /\ comb' = comb_handleNestingEnter(comb_SwitchCase(comb, node), node.ref)
       /\ fn' = IF test THEN Bump(fn, <<"decisions", "constructs">>) ELSE fn
       /\ UNCHANGED <<cogLevel, combLevel, family, extraction, emitted>>

EnterCatch ==
  \E slot \in Slots(Parent) :
    LET node == NewNode(slot, "CatchClause")
    IN /\ Place(slot, node)
       /\ cyc' = addComplexity(cyc, node.ref, "catch", 1)
       /\ cog' = handleNestingEnter(cog_CatchClause(cog, node), node.ref)
       /\ comb' = comb_handleNestingEnter(comb_CatchClause(comb, node), node.ref)
       /\ fn' = Structural(Bump(fn, <<"decisions", "constructs">>), node)
       /\ UNCHANGED <<cogLevel, combLevel, family, extraction, emitted>>

ExitCatch ==
  /\ Parent.type = "CatchClause"
  /\ Leave
  /\ cog' = handleNestingExit(cog, Parent.ref)
  /\ comb' = comb_handleNestingExit(comb_CatchClauseExit(comb, Parent), Parent.ref)
  /\ UNCHANGED <<cyc, cogLevel, combLevel, family, extraction, fn, emitted>>

EnterConditional ==
  \E slot \in Slots(Parent) :
    LET node == NewNode(slot, "ConditionalExpression")
    IN /\ Place(slot, node)
       /\ cyc' = addComplexity(cyc, node.ref, "ternary", 1)
       /\ cog' = handleNestingEnter(cog_ConditionalExpression(cog, node), node.ref)
       /\ comb' = comb_handleNestingEnter(comb_ConditionalExpression(comb, node), node.ref)
       /\ fn' = Structural(Bump(fn, <<"decisions", "constructs">>), node)
       /\ UNCHANGED <<cogLevel, combLevel, family, extraction, emitted>>

\* A break or continue statement: its handler, '*' and '*:exit'.
VisitJump ==
  \E slot \in Slots(Parent), type \in JumpTypes, label \in BOOLEAN :
    \* an unlabeled jump does the same whatever its keyword
    LET node == [Blank EXCEPT !.id = nextId + 1,
                              !.ref = ChildRef(Parent, slot.role, slot.idx),
                              !.type = type, !.label = label]
        keyword == IF type = "BreakStatement" THEN "break" ELSE "continue"
    IN /\ slot.cat \in JumpCats
       /\ type \in FamilyTypes(family)
       /\ label \/ type = "BreakStatement"
       /\ nextId < MaxNodes
       /\ nextId' = nextId + 1
       /\ path' = Advance(slot)
       /\ cog' = handleNestingExit(
                   handleNestingEnter(handleLabeledJump(cog, node, keyword), node.ref),
                   node.ref)
       /\ comb' = comb_handleNestingExit(
                    comb_handleNestingEnter(comb_handleLabeledJump(comb, node, keyword),
                                            node.ref),
                    node.ref)
       /\ fn' = IF label THEN Bump(fn, <<"jumps">>) ELSE fn
       /\ UNCHANGED <<cyc, cogLevel, combLevel, family, extraction, emitted>>

Operands == {"CallExpression", "ArrayExpression", "JSXElement"}

Spines == {<<>>} \cup {<<o>> : o \in LOGICAL_OPERATORS}

\* The operator of the logical expression whose right operand ends the spine.
LastOperator(operator, spine) == IF spine = <<>> THEN operator ELSE Last(spine)

EnterLogical ==
  \E slot \in Slots(Parent), operator \in LOGICAL_OPERATORS, left \in {"", "x", "y"},
     spine \in Spines, rightEnd \in Operands :
    LET node == [NewNode(slot, "LogicalExpression") EXCEPT
                   !.operator = operator, !.left = left, !.spine = spine,
                   !.rightEnd = rightEnd]
        sameAsParent == Parent.type = "LogicalExpression" /\ Parent.operator = operator
        isExcluded == isDefaultValuePattern(node, path) \/ isJsxShortCircuit(node)
    IN /\ Place(slot, node)
       /\ Len(spine) <= MaxSpine
       /\ {operator} \cup {spine[k] : k \in DOMAIN spine} \subseteq FamilyOperators(family)
       /\ rightEnd \in FamilyOperands(family)
       \* the text of the left operand matters under an assignment only, an
       \* array under || and ?? only, markup under && only
       /\ left = "y" => Parent.type = "AssignmentExpression"
       /\ rightEnd = "ArrayExpression" =>
            LastOperator(operator, spine) \in DEFAULT_VALUE_OPERATORS
       /\ rightEnd = "JSXElement" => LastOperator(operator, spine) = "&&"
       \* the right operand that the parent announced
       /\ slot.cat = "spine" =>
            /\ operator = Parent.spine[1]
            /\ spine = Tail(Parent.spine)
            /\ rightEnd = Parent.rightEnd
       /\ cyc' = IF operator \in LOGICAL_OPERATORS
                 THEN addComplexity(cyc, node.ref, operator, 1) ELSE cyc
       /\ cog' = handleNestingEnter(handleLogicalExpression(cog, node, path), node.ref)
       /\ comb' = comb_handleNestingEnter(comb_handleLogicalExpression(comb, node, path),
                                          node.ref)
       /\ fn' = Bump(fn, <<"decisions", "constructs", "ops">>
                           \o (IF Parent.type # "LogicalExpression"
                               THEN <<"chains">> ELSE <<>>)
                           \o (IF Parent.type = "LogicalExpression" /\ ~sameAsParent
                               THEN <<"changes">> ELSE <<>>)
                           \o (IF isExcluded THEN <<"excluded">> ELSE <<>>))
       /\ UNCHANGED <<cogLevel, combLevel, family, extraction, emitted>>

EnterAssignment ==
  \E slot \in Slots(Parent), operator \in {"="} \cup LOGICAL_ASSIGNMENT_OPERATORS :
    LET node == [NewNode(slot, "AssignmentExpression") EXCEPT
                   !.operator = operator, !.left = "x"]
        decision == operator \in LOGICAL_ASSIGNMENT_OPERATORS
    IN /\ Place(slot, node)
       /\ operator \in FamilyAssignments(family)
       /\ cyc' = IF operator \in LOGICAL_ASSIGNMENT_OPERATORS
                 THEN addComplexity(cyc, node.ref, operator, 1) ELSE cyc
       /\ cog' = handleNestingEnter(cog, node.ref)
       /\ comb' = comb_handleNestingEnter(comb_AssignmentExpression(comb, node), node.ref)
       /\ fn' = IF decision THEN Bump(fn, <<"decisions", "constructs">>) ELSE fn
       /\ UNCHANGED <<cogLevel, combLevel, family, extraction, emitted>>

Callees ==
  {[kind |-> "Identifier", name |-> "f", prop |-> ""],
   [kind |-> "Identifier", name |-> "g", prop |-> ""],
   [kind |-> "Member", name |-> "f", prop |-> "call"],
   [kind |-> "ThisMember", name |-> "f", prop |-> ""]}

EnterCall ==
  \E slot \in Slots(Parent), callee \in Callees :
    LET node == [NewNode(slot, "CallExpression") EXCEPT !.callee = callee]
    IN /\ Place(slot, node)
       /\ cog' = handleNestingEnter(cog_CallExpression(cog, node), node.ref)
       /\ comb' = comb_handleNestingEnter(comb_CallExpression(comb, node), node.ref)
       /\ fn' = IF fn # <<>> /\ isRecursiveCall(node, Last(fn).name)
                THEN Bump(fn, <<"sites">>) ELSE fn
       /\ UNCHANGED <<cyc, cogLevel, combLevel, family, extraction, emitted>>

Next ==
  \/ EnterFunction
  \/ ExitFunction
  \/ EnterIf
  \/ ExitIf
  \/ EnterLoop
  \/ ExitLoop
  \/ EnterSwitch
  \/ ExitSwitch
  \/ EnterSwitchCase
  \/ EnterCatch
  \/ ExitCatch
  \/ EnterConditional
  \/ EnterLogical
  \/ EnterAssignment
  \/ EnterCall
  \/ EnterOther
  \/ ExitOther
  \/ VisitLeaf
  \/ VisitJump

Spec == Init /\ [][Next]_vars

(***************************************************************************)
(* Extraction analysis.  Its functions are pure: each is checked under a   *)
(* specification whose initial states are the inputs and whose action      *)
(* applies the function.  The walk stands still meanwhile.                 *)
(***************************************************************************)
MaxLine == 3

MaxPoints == 2

MaxAmount == 2

Lines == 1 .. MaxLine

\* Array.prototype.toSorted with a comparator (a, b) => key(a) - key(b),
\* keys[k] being the key of seq[k]: a stable sort by ascending key.
toSorted(seq, keys) ==
  LET rank(i) == 1 + Cardinality({j \in 1 .. Len(seq) :
                        \/ keys[j] < keys[i]
                        \/ keys[j] = keys[i] /\ j < i})
  IN [k \in 1 .. Len(seq) |-> seq[CHOOSE i \in 1 .. Len(seq) : rank(i) = k]]

\* Math.round of the quotient of two positive integers.
MathRound(num, den) == (2 * num + den) \div (2 * den)

(***************************************************************************)
(* Boundary detector.  A point is [startLine, endLine, complexity]: the    *)
(* lines of its location and its amount.                                   *)
(***************************************************************************)
DEFAULT_MIN_COMPLEXITY_PERCENTAGE == 30

DEFAULT_MAX_COMPLEXITY_PERCENTAGE == 70

DEFAULT_MAX_LINE_GAP == 2

DEFAULT_MAX_CANDIDATES == 3

\* The loop of groupAdjacentPoints from sorted[i] on.
RECURSIVE groupFrom(_, _, _, _, _)
groupFrom(sorted, i, groups, currentGroup, maxLineGap) ==
  IF i > Len(sorted) THEN Append(groups, currentGroup)
  ELSE LET point == sorted[i]
           pointStartLine == point.startLine
       IN IF pointStartLine <= currentGroup.endLine + maxLineGap
          THEN groupFrom(sorted, i + 1, groups,
                         [points |-> Append(currentGroup.points, point),
                          startLine |-> currentGroup.startLine,
                          endLine |-> pointStartLine,
                          totalComplexity |-> currentGroup.totalComplexity + point.complexity],
                         maxLineGap)
          ELSE groupFrom(sorted, i + 1, Append(groups, currentGroup),
                         [points |-> <<point>>,
                          startLine |-> pointStartLine,
                          endLine |-> pointStartLine,
                          totalComplexity |-> point.complexity],
                         maxLineGap)

groupAdjacentPoints_adjacentOnly(points, maxLineGap) ==
  IF Len(points) = 0 THEN <<>>
  ELSE LET sorted == toSorted(points, [k \in 1 .. Len(points) |-> points[k].startLine])
       IN groupFrom(sorted, 2, <<>>,
                    [points |-> <<sorted[1]>>,
                     startLine |-> sorted[1].startLine,
                     endLine |-> sorted[1].startLine,
                     totalComplexity |-> sorted[1].complexity],
                    0)

groupAdjacentPoints(points, maxLineGap) ==
  IF Len(points) = 0 THEN <<>>
  ELSE LET sorted == toSorted(points, [k \in 1 .. Len(points) |-> points[k].startLine])
       IN groupFrom(sorted, 2, <<>>,
                    [points |-> <<sorted[1]>>,
                     startLine |-> sorted[1].startLine,
                     endLine |-> sorted[1].startLine,
                     totalComplexity |-> sorted[1].complexity],
                    maxLineGap)

groupToCandidate(group, totalComplexity) ==
  LET lastPoint == group.points[Len(group.points)]
      actualEndLine == lastPoint.endLine
  IN [startLine |-> group.startLine,
      endLine |-> actualEndLine,
      complexity |-> group.totalComplexity,
      complexityPercentage |-> MathRound(group.totalComplexity * 100, totalComplexity),
      points |-> group.points]

candidatesOverlap_never(a, b) == FALSE

candidatesOverlap(a, b) == a.startLine <= b.endLine /\ b.startLine <= a.endLine

\* The loop of selectNonOverlapping from sorted[i] on.
RECURSIVE selectFrom(_, _, _, _)
selectFrom(sorted, i, selected, maxCandidates) ==
  IF i > Len(sorted) \/ Len(selected) >= maxCandidates THEN selected
  ELSE LET candidate == sorted[i]
           overlaps == \E k \in 1 .. Len(selected) : candidatesOverlap(selected[k], candidate)
       IN selectFrom(sorted, i + 1,
                     IF ~overlaps THEN Append(selected, candidate) ELSE selected,
                     maxCandidates)

selectNonOverlapping_inGivenOrder(candidates, maxCandidates) ==
  LET selected == selectFrom(candidates, 1, <<>>, maxCandidates)
  IN toSorted(selected, [k \in 1 .. Len(selected) |-> selected[k].startLine])

selectNonOverlapping(candidates, maxCandidates) ==
  LET sorted == toSorted(candidates,
                         [k \in 1 .. Len(candidates) |-> 0 - candidates[k].complexity])
      selected == selectFrom(sorted, 1, <<>>, maxCandidates)
  IN toSorted(selected, [k \in 1 .. Len(selected) |-> selected[k].startLine])

filteredCandidates_noMaximum(points, totalComplexity, options) ==
  LET groups == groupAdjacentPoints(points, options.maxLineGap)
      candidates == [k \in 1 .. Len(groups) |-> groupToCandidate(groups[k], totalComplexity)]
      keep(candidate) == candidate.complexityPercentage >= options.minComplexityPercentage
  IN SelectSeq(candidates, keep)

\* The groups' candidates that pass the percentage filter.
filteredCandidates(points, totalComplexity, options) ==
  LET groups == groupAdjacentPoints(points, options.maxLineGap)
      candidates == [k \in 1 .. Len(groups) |-> groupToCandidate(groups[k], totalComplexity)]
      keep(candidate) ==
        /\ candidate.complexityPercentage >= options.minComplexityPercentage
        /\ candidate.complexityPercentage <= options.maxComplexityPercentage
  IN SelectSeq(candidates, keep)

findExtractionCandidates(points, totalComplexity, options) ==
  IF Len(points) = 0 \/ totalComplexity = 0 THEN <<>>
  ELSE selectNonOverlapping(filteredCandidates(points, totalComplexity, options),
                            options.maxCandidates)

\* The inputs of the boundary detector: the points that a visitor reported
\* for a function, the function's total, which is the sum of its points
\* (cognitive) or the base complexity and that sum (cyclomatic), and the
\* options of the rule.
CandidatesInit ==
  LET Points == {p \in [startLine : Lines, endLine : Lines, complexity : 1 .. MaxAmount] :
                   p.startLine <= p.endLine}
      PointLists == UNION {[1 .. n -> Points] : n \in 0 .. MaxPoints}
      Totals(points) == {Sum(points), BASE_FUNCTION_COMPLEXITY + Sum(points)}
      ExtractionOptions ==
        [minComplexityPercentage : {DEFAULT_MIN_COMPLEXITY_PERCENTAGE},
         maxComplexityPercentage : {DEFAULT_MAX_COMPLEXITY_PERCENTAGE, 100},
         maxLineGap : {0, DEFAULT_MAX_LINE_GAP},
         maxCandidates : {1, DEFAULT_MAX_CANDIDATES}]
  IN /\ WalkInit
     /\ family = "flow"
     /\ \E points \in PointLists, options \in ExtractionOptions :
          \E totalComplexity \in Totals(points) :
            extraction = [stage |-> "points",
                          points |-> points,
                          totalComplexity |-> totalComplexity,
                          options |-> options]

FindExtractionCandidates ==
  /\ extraction.stage = "points"
  /\ extraction' = [stage |-> "candidates",
                    points |-> extraction.points,
                    totalComplexity |-> extraction.totalComplexity,
                    options |-> extraction.options,
                    candidates |-> findExtractionCandidates(
                       extraction.points, extraction.totalComplexity, extraction.options)]
  /\ UNCHANGED walkVars

SpecCandidates == CandidatesInit /\ [][FindExtractionCandidates]_vars

(***************************************************************************)
(* Variable tracker and variable flow analyzer.                            *)
(*                                                                         *)
(* The body of the analyzed function is a sequence of expression and       *)
(* statement nodes in source order.  A node is                             *)
(*   [type, target, root, property, line, within]                          *)
(* where target is the type of the node's left side, argument or callee,   *)
(* root the identifier that a member chain or an identifier target starts  *)
(* from, property the called method, and within the function literal that  *)
(* directly contains the node (type "none": the node is in the analyzed    *)
(* function itself).                                                       *)
(***************************************************************************)
MaxItems == 1

MaxReturns == 2

NESTED_FUNCTION_SCOPE_TYPES == {"function", "function-expression-name", "class-field-initializer"}

NESTED_FUNCTION_TYPES == {"FunctionDeclaration", "FunctionExpression", "ArrowFunctionExpression"}

MUTATING_METHODS ==
  {"push", "pop", "shift", "unshift", "splice", "sort", "reverse", "fill", "copyWithin",
   "set", "add", "delete", "clear"}

NoLiteral == [type |-> "none", startLine |-> 0, endLine |-> 0]

RECURSIVE Flatten(_)
Flatten(seqs) == IF seqs = <<>> THEN <<>> ELSE seqs[1] \o Flatten(Tail(seqs))

\* The scopes from the scope of a node up to the scope of the analyzed
\* function, that one left out: a function literal makes a scope of type
\* "function".
ScopeChain(node) == IF node.within.type = "none" THEN <<>> ELSE <<"function">>

\* How the scope manager classifies the reference that a node makes to its
\* root: an identifier that is assigned is written, one that is updated is
\* read and written, and the object of a member chain is read.
ReferenceKind(node) ==
  IF node.target = "Identifier" /\ node.type = "AssignmentExpression" THEN "write"
  ELSE IF node.target = "Identifier" /\ node.type = "UpdateExpression" THEN "readwrite"
  ELSE "read"

\* The references of the scope manager to the variable name, in source order.
ScopeReferences(body, name) ==
  LET refers(node) == node.root = name
      nodes == SelectSeq(body, refers)
  IN [k \in 1 .. Len(nodes) |->
        [kind |-> ReferenceKind(nodes[k]), from |-> ScopeChain(nodes[k]),
         identifier |-> nodes[k]]]

getReferenceType(ref) == ref.kind

isNestedFunctionScope(scope) ==
  \E k \in 1 .. Len(scope) : scope[k] \in NESTED_FUNCTION_SCOPE_TYPES

convertReferences(variable) ==
  LET kept(ref) == ~isNestedFunctionScope(ref.from)
      refs == SelectSeq(variable.references, kept)
  IN [k \in 1 .. Len(refs) |->
        [line |-> refs[k].identifier.line,
         type |-> getReferenceType(refs[k]),
         node |-> refs[k].identifier]]

processVariable(variable) ==
  [name |-> variable.name,
   declarationLine |-> variable.declarationLine,
   isMutable |-> variable.declarationType # "const",
   typeAnnotation |-> variable.typeAnnotation,
   references |-> convertReferences(variable)]

\* The scope of the analyzed function is scope, a sequence of variables.
getVariablesForFunction(scope) == [k \in 1 .. Len(scope) |-> processVariable(scope[k])]

hasReadsInRange(variable, startLine, endLine) ==
  \E k \in 1 .. Len(variable.references) :
    LET ref == variable.references[k]
    IN /\ ref.type \in {"read", "readwrite"}
       /\ ref.line >= startLine
       /\ ref.line <= endLine

isUsedAfter_fromEnd(variable, endLine) ==
  \E k \in 1 .. Len(variable.references) : variable.references[k].line >= endLine

isUsedAfter(variable, endLine) ==
  \E k \in 1 .. Len(variable.references) : variable.references[k].line > endLine

getWritesInRange(variable, startLine, endLine) ==
  LET isWrite(ref) ==
        /\ ref.type \in {"write", "readwrite"}
        /\ ref.line >= startLine
        /\ ref.line <= endLine
      writes == SelectSeq(variable.references, isWrite)
  IN [k \in 1 .. Len(writes) |-> [line |-> writes[k].line, type |-> writes[k].type]]

isDeclaredInRange(variable, startLine, endLine) ==
  variable.declarationLine >= startLine /\ variable.declarationLine <= endLine

detectDirectMutations(candidate, variables) ==
  LET ofVariable(variable) ==
        IF isDeclaredInRange(variable, candidate.startLine, candidate.endLine) THEN <<>>
        ELSE LET writes == getWritesInRange(variable, candidate.startLine, candidate.endLine)
             IN [k \in 1 .. Len(writes) |->
                   [variable |-> variable.name,
                    mutationLine |-> writes[k].line,
                    mutationType |-> IF writes[k].type = "readwrite"
                                     THEN "increment" ELSE "assignment"]]
  IN Flatten([k \in 1 .. Len(variables) |-> ofVariable(variables[k])])

isClosureNode(node) == node.type \in {"FunctionExpression", "ArrowFunctionExpression"}

\* The parents of a node are the function literal it is within, if any, and
\* the analyzed function's own nodes, none of which lies within the range
\* and is a function expression.  The result <<>> stands for null.
findEnclosingClosure(startNode, candidate) ==
  IF /\ isClosureNode(startNode)
     /\ startNode.startLine >= candidate.startLine
     /\ startNode.endLine <= candidate.endLine
  THEN <<[startLine |-> startNode.startLine, endLine |-> startNode.endLine]>>
  ELSE <<>>

\* Keeps the first element of each key, keys[k] being the key of seq[k].
RECURSIVE uniqueBy(_, _, _)
uniqueBy(seq, keys, seen) ==
  IF seq = <<>> THEN <<>>
  ELSE IF keys[1] \in seen THEN uniqueBy(Tail(seq), Tail(keys), seen)
  ELSE <<seq[1]>> \o uniqueBy(Tail(seq), Tail(keys), seen \cup {keys[1]})

detectClosures(candidate, variables) ==
  LET ofVariable(variable) ==
        IF ~variable.isMutable \/ variable.declarationLine >= candidate.startLine THEN <<>>
        ELSE LET captured(ref) ==
                   /\ ~(ref.line < candidate.startLine \/ ref.line > candidate.endLine)
                   /\ findEnclosingClosure(ref.node.within, candidate) # <<>>
                 refs == SelectSeq(variable.references, captured)
             IN [k \in 1 .. Len(refs) |->
                   LET closure == findEnclosingClosure(refs[k].node.within, candidate)[1]
                   IN [variable |-> variable.name,
                       closureStartLine |-> closure.startLine,
                       closureEndLine |-> closure.endLine]]
      closures == Flatten([k \in 1 .. Len(variables) |-> ofVariable(variables[k])])
  IN uniqueBy(closures, [k \in 1 .. Len(closures) |-> closures[k].variable], {})

isOutsideRange(n, startLine, endLine) == n.endLine < startLine \/ n.startLine > endLine

\* The nodes of the analyzed function that walkInRange hands to its
\* visitor, in order.  The function's own node lies over all lines and is
\* the root; the walk does not go into a function literal.
walkInRange_arrows(body, startLine, endLine) ==
  LET visited(n) ==
        /\ ~isOutsideRange([startLine |-> n.line, endLine |-> n.line], startLine, endLine)
        /\ \/ n.within.type = "none"
           \/ /\ ~isOutsideRange(n.within, startLine, endLine)
              /\ n.within.type \notin NESTED_FUNCTION_TYPES \ {"ArrowFunctionExpression"}
  IN IF isOutsideRange([startLine |-> 1, endLine |-> MaxLine], startLine, endLine)
     THEN <<>> ELSE SelectSeq(body, visited)

walkInRange(body, startLine, endLine) ==
  LET visited(n) ==
        /\ ~isOutsideRange([startLine |-> n.line, endLine |-> n.line], startLine, endLine)
        /\ \/ n.within.type = "none"
           \/ /\ ~isOutsideRange(n.within, startLine, endLine)
              /\ n.within.type \notin NESTED_FUNCTION_TYPES
  IN IF isOutsideRange([startLine |-> 1, endLine |-> MaxLine], startLine, endLine)
     THEN <<>> ELSE SelectSeq(body, visited)

\* The result <<>> stands for null, here and in the checkers.
resolveRootIdentifier(node) == IF node.root = "" THEN <<>> ELSE <<node.root>>

findExternalVariable_any(memberExpr, variables, startLine, endLine) ==
  LET rootName == resolveRootIdentifier(memberExpr)
      named(variable) == rootName # <<>> /\ variable.name = rootName[1]
      found == SelectSeq(variables, named)
  IN IF found = <<>> THEN <<>> ELSE <<found[1]>>

findExternalVariable(memberExpr, variables, startLine, endLine) ==
  LET rootName == resolveRootIdentifier(memberExpr)
      named(variable) == rootName # <<>> /\ variable.name = rootName[1]
      found == SelectSeq(variables, named)
  IN IF rootName = <<>> THEN <<>>
     ELSE IF found = <<>> \/ isDeclaredInRange(found[1], startLine, endLine) THEN <<>>
     ELSE <<found[1]>>

checkPropertyAssignment(n, variables, startLine, endLine) ==
  IF n.target # "MemberExpression" THEN <<>>
  ELSE LET variable == findExternalVariable(n, variables, startLine, endLine)
       IN IF variable = <<>> THEN <<>>
          ELSE <<[variable |-> variable[1].name, mutationLine |-> n.line,
                  mutationType |-> "assignment"]>>

checkPropertyUpdate(n, variables, startLine, endLine) ==
  IF n.target # "MemberExpression" THEN <<>>
  ELSE LET variable == findExternalVariable(n, variables, startLine, endLine)
       IN IF variable = <<>> THEN <<>>
          ELSE <<[variable |-> variable[1].name, mutationLine |-> n.line,
                  mutationType |-> "increment"]>>

checkMethodCallMutation(n, variables, startLine, endLine) ==
  IF n.target # "MemberExpression" THEN <<>>
  ELSE IF n.property \notin MUTATING_METHODS THEN <<>>
  ELSE LET variable == findExternalVariable(n, variables, startLine, endLine)
       IN IF variable = <<>> THEN <<>>
          ELSE <<[variable |-> variable[1].name, mutationLine |-> n.line,
                  mutationType |-> "method-call"]>>

detectAstMutations_assignments(candidate, variables, functionNode) ==
  LET nodes == walkInRange(functionNode, candidate.startLine, candidate.endLine)
      mutation(n) ==
        IF n.type = "AssignmentExpression"
        THEN checkPropertyAssignment(n, variables, candidate.startLine, candidate.endLine)
        ELSE <<>>
  IN Flatten([k \in 1 .. Len(nodes) |-> mutation(nodes[k])])

detectAstMutations(candidate, variables, functionNode) ==
  LET nodes == walkInRange(functionNode, candidate.startLine, candidate.endLine)
      mutation(n) ==
        IF n.type = "AssignmentExpression"
        THEN checkPropertyAssignment(n, variables, candidate.startLine, candidate.endLine)
        ELSE IF n.type = "UpdateExpression"
        THEN checkPropertyUpdate(n, variables, candidate.startLine, candidate.endLine)
        ELSE IF n.type = "CallExpression"
        THEN checkMethodCallMutation(n, variables, candidate.startLine, candidate.endLine)
        ELSE <<>>
  IN Flatten([k \in 1 .. Len(nodes) |-> mutation(nodes[k])])

collectReturnStatements(node, startLine, endLine) ==
  LET isReturn(n) == n.type = "ReturnStatement" /\ n.line >= startLine /\ n.line <= endLine
  IN SelectSeq(walkInRange(node, startLine, endLine), isReturn)

hasEarlyReturn_noSlack(candidate, functionNode) ==
  LET returns == collectReturnStatements(functionNode, candidate.startLine, candidate.endLine)
  IN IF Len(returns) = 0 THEN FALSE
     ELSE IF Len(returns) > 1 THEN TRUE
     ELSE returns[1].line < candidate.endLine

hasEarlyReturn(candidate, functionNode) ==
  LET returns == collectReturnStatements(functionNode, candidate.startLine, candidate.endLine)
  IN IF Len(returns) = 0 THEN FALSE
     ELSE IF Len(returns) > 1 THEN TRUE
     ELSE returns[1].line < candidate.endLine - 1

detectThisReferences(candidate, functionNode) ==
  \E k \in 1 .. Len(walkInRange(functionNode, candidate.startLine, candidate.endLine)) :
    walkInRange(functionNode, candidate.startLine, candidate.endLine)[k].type = "ThisExpression"

deduplicateMutations(mutationSets) ==
  LET all == Flatten(mutationSets)
  IN uniqueBy(all, [k \in 1 .. Len(all) |-> <<all[k].variable, all[k].mutationLine>>], {})

analyzeVariableFlow(candidate, variables, functionNode) ==
  LET declaredBefore(variable) == variable.declarationLine < candidate.startLine
      declaredInside(variable) ==
        isDeclaredInRange(variable, candidate.startLine, candidate.endLine)
      readsInRange(variable) ==
        hasReadsInRange(variable, candidate.startLine, candidate.endLine)
      usedAfterRange(variable) == isUsedAfter(variable, candidate.endLine)
      isInput(variable) == declaredBefore(variable) /\ readsInRange(variable)
      isOutput(variable) ==
        ~isInput(variable) /\ declaredInside(variable) /\ usedAfterRange(variable)
      isInternal(variable) ==
        ~isInput(variable) /\ declaredInside(variable) /\ ~usedAfterRange(variable)
  IN [inputs |-> SelectSeq(variables, isInput),
      outputs |-> SelectSeq(variables, isOutput),
      internalOnly |-> SelectSeq(variables, isInternal),
      mutations |-> deduplicateMutations(
                      <<detectDirectMutations(candidate, variables),
                        detectAstMutations(candidate, variables, functionNode)>>),
      closures |-> detectClosures(candidate, variables),
      hasEarlyReturn |-> hasEarlyReturn(candidate, functionNode),
      hasThisReference |-> detectThisReferences(candidate, functionNode)]

(***************************************************************************)
(* Suggestion generator.  A text that the code builds from parts is the    *)
(* tuple of its parts; an absent signature is <<>>.                        *)
(***************************************************************************)
MAX_HIGH_CONFIDENCE_INPUTS == 3

PLACEHOLDER_FUNCTION_NAME == "extracted"

MAX_HIGH_CONFIDENCE_OUTPUTS == 1

MAX_MEDIUM_CONFIDENCE_INPUTS == 5

MAX_MEDIUM_CONFIDENCE_OUTPUTS == 2

determineConfidence_highLimits(flow) ==
  LET inputCount == Len(flow.inputs)
      outputCount == Len(flow.outputs)
      hasMutations == Len(flow.mutations) > 0
      hasClosures == Len(flow.closures) > 0
  IN IF \/ inputCount > MAX_HIGH_CONFIDENCE_INPUTS
        \/ outputCount > MAX_MEDIUM_CONFIDENCE_OUTPUTS
        \/ hasMutations
        \/ hasClosures
     THEN "low"
     ELSE IF \/ inputCount > MAX_HIGH_CONFIDENCE_INPUTS
             \/ outputCount > MAX_HIGH_CONFIDENCE_OUTPUTS
             \/ flow.hasEarlyReturn
     THEN "medium"
     ELSE "high"

determineConfidence(flow) ==
  LET inputCount == Len(flow.inputs)
      outputCount == Len(flow.outputs)
      hasMutations == Len(flow.mutations) > 0
      hasClosures == Len(flow.closures) > 0
  IN IF \/ inputCount > MAX_MEDIUM_CONFIDENCE_INPUTS
        \/ outputCount > MAX_MEDIUM_CONFIDENCE_OUTPUTS
        \/ hasMutations
        \/ hasClosures
     THEN "low"
     ELSE IF \/ inputCount > MAX_HIGH_CONFIDENCE_INPUTS
             \/ outputCount > MAX_HIGH_CONFIDENCE_OUTPUTS
             \/ flow.hasEarlyReturn
     THEN "medium"
     ELSE "high"

\* A parameter or a property of the return type is name and type, or the
\* name alone where the variable has no type.
generateSignature(functionName, inputs, outputs) ==
  LET TypedText(v) == IF v.type # "" THEN <<v.name, ": ", v.type>> ELSE <<v.name>>
      params == [k \in 1 .. Len(inputs) |-> TypedText(inputs[k])]
      returnType ==
        IF Len(outputs) = 0 THEN <<"void">>
        ELSE IF Len(outputs) = 1
        THEN <<IF outputs[1].type # "" THEN outputs[1].type ELSE "unknown">>
        ELSE [k \in 1 .. Len(outputs) |-> TypedText(outputs[k])]
  IN <<functionName, params, returnType>>

detectIssues(candidate, flow) ==
  [k \in 1 .. Len(flow.mutations) |->
     [type |-> "mutation", line |-> flow.mutations[k].mutationLine,
      variable |-> flow.mutations[k].variable]]
  \o [k \in 1 .. Len(flow.closures) |->
        [type |-> "closure", line |-> flow.closures[k].closureStartLine,
         variable |-> flow.closures[k].variable]]
  \o (IF Len(flow.inputs) > MAX_MEDIUM_CONFIDENCE_INPUTS
      THEN <<[type |-> "too-many-params", line |-> 0, variable |-> ""]>> ELSE <<>>)
  \o (IF Len(flow.outputs) > MAX_MEDIUM_CONFIDENCE_OUTPUTS
      THEN <<[type |-> "multiple-outputs", line |-> 0, variable |-> ""]>> ELSE <<>>)
  \o (IF flow.hasEarlyReturn
      THEN <<[type |-> "early-return", line |-> 0, variable |-> ""]>> ELSE <<>>)

\* The text of the suggestion for an issue is its template and its variable.
generateSuggestions(issues) ==
  LET texts == [k \in 1 .. Len(issues) |-> <<issues[k].type, issues[k].variable>>]
  IN uniqueBy(texts, texts, {})

toTypedVariable(variable) == [name |-> variable.name, type |-> variable.typeAnnotation]

createExtractionSuggestion_despiteIssues(candidate, flow) ==
  LET confidence == determineConfidence(flow)
      issues == detectIssues(candidate, flow)
      inputs == [k \in 1 .. Len(flow.inputs) |-> toTypedVariable(flow.inputs[k])]
      outputs == [k \in 1 .. Len(flow.outputs) |-> toTypedVariable(flow.outputs[k])]
  IN [range |-> [start |-> candidate.startLine, end |-> candidate.endLine],
      confidence |-> confidence,
      inputs |-> inputs,
      outputs |-> outputs,
      suggestedSignature |->
        IF confidence # "low"
        THEN <<generateSignature(PLACEHOLDER_FUNCTION_NAME, inputs, outputs)>>
        ELSE <<>>,
      issues |-> issues,
      suggestions |-> generateSuggestions(issues)]

createExtractionSuggestion(candidate, flow) ==
  LET confidence == determineConfidence(flow)
      issues == detectIssues(candidate, flow)
      inputs == [k \in 1 .. Len(flow.inputs) |-> toTypedVariable(flow.inputs[k])]
      outputs == [k \in 1 .. Len(flow.outputs) |-> toTypedVariable(flow.outputs[k])]
  IN [range |-> [start |-> candidate.startLine, end |-> candidate.endLine],
      confidence |-> confidence,
      inputs |-> inputs,
      outputs |-> outputs,
      suggestedSignature |->
        IF confidence # "low" /\ Len(issues) = 0
        THEN <<generateSignature(PLACEHOLDER_FUNCTION_NAME, inputs, outputs)>>
        ELSE <<>>,
      issues |-> issues,
      suggestions |-> generateSuggestions(issues)]

\* The inputs of the flow analysis: a candidate range, the body of the
\* analyzed function and the function's scope, which holds one variable x.
\* Each body is made of the nodes of one family.

\* The function literals that a node on a line can be within: none, or one
\* that starts on the line and ends on it or on the next line.
Literals(fam, line) ==
  {NoLiteral} \cup
  [type : NESTED_FUNCTION_TYPES, startLine : {line},
   endLine : IF fam = "members" THEN {line} ELSE {line, line + 1} \cap Lines]

\* The nodes of a family: references to x, member chains on x or on a
\* name g that is no variable of the function, return statements, this.
Nodes(fam) ==
  LET Shapes ==
        CASE fam = "references" ->
               [type : {"Identifier", "AssignmentExpression", "UpdateExpression"},
                target : {"Identifier"}, root : {"x"}, property : {""}]
          [] fam = "members" ->
               [type : {"AssignmentExpression", "UpdateExpression"},
                target : {"MemberExpression"}, root : {"x", "g"}, property : {"p"}]
               \cup [type : {"CallExpression"}, target : {"MemberExpression"},
                     root : {"x", "g"}, property : {"push", "map"}]
          [] fam = "returns" ->
               [type : {"ReturnStatement"}, target : {""}, root : {""}, property : {""}]
          [] fam = "this" ->
               [type : {"ThisExpression"}, target : {""}, root : {""}, property : {""}]
  IN UNION {{[type |-> sh.type, target |-> sh.target, root |-> sh.root,
              property |-> sh.property, line |-> line, within |-> lit] :
               sh \in Shapes, lit \in Literals(fam, line)} : line \in Lines}

\* The bodies of a family, their nodes in source order.
Bodies(fam) ==
  UNION {{b \in [1 .. n -> Nodes(fam)] : \A k \in 1 .. n - 1 : b[k].line <= b[k + 1].line} :
           n \in 0 .. (IF fam = "returns" THEN MaxReturns ELSE MaxItems)}

\* x is declared on any line where the family refers to it, and is a
\* parameter on the function's first line where it does not.
FlowInit ==
  LET Candidates == {c \in [startLine : Lines, endLine : Lines] : c.startLine <= c.endLine}
      Declarations(fam) ==
        CASE fam = "references" ->
               [declarationLine : Lines, declarationType : {"const", "let"}]
          [] fam = "members" -> [declarationLine : Lines, declarationType : {"const"}]
          [] OTHER -> [declarationLine : {1}, declarationType : {"param"}]
  IN /\ WalkInit
     /\ family = "flow"
     /\ \E fam \in {"references", "members", "returns", "this"} :
          \E candidate \in Candidates, body \in Bodies(fam), decl \in Declarations(fam) :
            extraction = [stage |-> "function",
                          candidate |-> candidate,
                          body |-> body,
                          scope |-> <<[name |-> "x",
                                       declarationLine |-> decl.declarationLine,
                                       declarationType |-> decl.declarationType,
                                       typeAnnotation |-> "",
                                       references |-> ScopeReferences(body, "x")]>>]

\* The variables of the function are tracked and the flow of the candidate
\* is analyzed.
AnalyzeVariableFlow ==
  /\ extraction.stage = "function"
  /\ LET variables == getVariablesForFunction(extraction.scope)
     IN extraction' = [stage |-> "flow",
                       candidate |-> extraction.candidate,
                       body |-> extraction.body,
                       scope |-> extraction.scope,
                       variables |-> variables,
                       flow |-> analyzeVariableFlow(extraction.candidate, variables,
                                                    extraction.body)]
  /\ UNCHANGED walkVars

\* The suggestion for the candidate is made from its flow.
CreateExtractionSuggestion ==
  /\ extraction.stage = "flow"
  /\ extraction' = [extraction EXCEPT !.stage = "suggestion"] @@
                   [suggestion |-> createExtractionSuggestion(extraction.candidate,
                                                              extraction.flow)]
  /\ UNCHANGED walkVars

FlowNext ==
  \/ AnalyzeVariableFlow
  \/ CreateExtractionSuggestion

SpecFlow == FlowInit /\ [][FlowNext]_vars

\* The inputs of the suggestion generator alone: a candidate and any flow
\* analysis, its lists told by their lengths.
MaxInputs == 6

MaxOutputs == 3

MaxIssues == 1

SuggestionInit ==
  LET VariableNames == <<"a", "b", "c", "d", "e", "f", "g", "h">>
      VariableList(n) ==
        [k \in 1 .. n |-> [name |-> VariableNames[k],
                           typeAnnotation |-> IF k = 1 THEN "number" ELSE ""]]
      MutationList(n) ==
        [k \in 1 .. n |->
           [variable |-> "m", mutationLine |-> k, mutationType |-> "assignment"]]
      ClosureList(n) ==
        [k \in 1 .. n |-> [variable |-> VariableNames[k], closureStartLine |-> k,
                           closureEndLine |-> k]]
      Flows ==
        {[inputs |-> VariableList(i), outputs |-> VariableList(o), internalOnly |-> <<>>,
          mutations |-> MutationList(m), closures |-> ClosureList(c),
          hasEarlyReturn |-> r, hasThisReference |-> t] :
           i \in 0 .. MaxInputs, o \in 0 .. MaxOutputs, m \in 0 .. MaxIssues,
           c \in 0 .. MaxIssues, r \in BOOLEAN, t \in BOOLEAN}
  IN /\ WalkInit
     /\ family = "flow"
     /\ \E flow \in Flows :
          extraction = [stage |-> "flow",
                        candidate |-> [startLine |-> 1, endLine |-> MaxLine],
                        flow |-> flow]

SpecSuggestion == SuggestionInit /\ [][CreateExtractionSuggestion]_vars

(***************************************************************************)
(* Properties.                                                             *)
(***************************************************************************)
\* The points of a list whose message text is among texts.
RECURSIVE Select(_, _)
Select(points, texts) ==
  IF points = <<>> THEN <<>>
  ELSE (IF points[1].message[3] \in texts THEN <<points[1]>> ELSE <<>>)
         \o Select(Tail(points), texts)

\* A list of points each of which is flat: amount 1, no nesting term.
AllFlat(points) ==
  \A i \in DOMAIN points : points[i].complexity = 1 /\ points[i].message[2] = 0

StructuralTexts ==
  {"if", "for", "for...in", "for...of", "while", "do...while", "switch", "catch",
   "ternary operator"}

LogicalTexts == {LogicalMessage(o) : o \in LOGICAL_OPERATORS}

\* C1: for every function the combined scorer reports the cyclomatic total
\* of the standalone cyclomatic scorer and the cognitive total of the
\* standalone cognitive scorer.
C1_SameTotals ==
  \A i \in DOMAIN emitted :
    /\ emitted[i].comb.cyclomatic = emitted[i].cyc.total
    /\ emitted[i].comb.cognitive = emitted[i].cog.total

\* C2: for every function the combined scorer's two point lists are the
\* point lists of the standalone scorers: the same points in the same
\* order, each with the same message, amount, nesting level and location.
C2_SamePoints ==
  \A i \in DOMAIN emitted :
    /\ emitted[i].comb.cyclomaticPoints = emitted[i].cyc.points
    /\ emitted[i].comb.cognitivePoints = emitted[i].cog.points

\* C3: the structural points of a function in the cognitive scorer's report
\* are, in walk order, one per structural construct of the function (an if
\* that is no else-if, a loop, a switch, a catch clause, a ternary), located
\* at the construct and of amount 1 + d, d the number of nesting regions of
\* the function that the construct lies in.
C3_StructuralAmount ==
  \A i \in DOMAIN emitted :
    LET points == Select(emitted[i].cog.points, StructuralTexts)
        constructs == emitted[i].fn.structural
    IN /\ Len(points) = Len(constructs)
       /\ \A k \in DOMAIN points :
            /\ points[k].location = constructs[k][1]
            /\ points[k].complexity = 1 + constructs[k][2]

\* C4: a step that enters a function while another function is open appends
\* exactly one flat point (amount 1, located at the entered function) to the
\* points of the innermost open function and leaves every other open scope
\* as it was; the scope of the entered function starts without points; when
\* no function is open no point is added anywhere.
C4_NestedFunctionPoint ==
  [][Len(cog') = Len(cog) + 1 =>
       /\ Last(cog').points = <<>>
       /\ \A k \in 1..(Len(cog) - 1) : cog'[k] = cog[k]
       /\ cog # <<>> =>
            LET before == Last(cog).points
                after == cog'[Len(cog)].points
            IN /\ Len(after) = Len(before) + 1
               /\ SubSeq(after, 1, Len(before)) = before
               /\ Last(after).complexity = 1
               /\ Last(after).message[2] = 0
               /\ Last(after).message[3] \in {"nested function", "nested arrow function"}
               /\ Last(after).location = Last(path').ref]_vars

C4_Witness ==
  /\ Len(cog) = 2
  /\ Parent.type = "ArrowFunctionExpression"
  /\ Select(cog[1].points, {"nested arrow function"}) # <<>>
  /\ cog[2].points = <<>>

\* C5: a function's report has exactly one recursion point, of amount 1,
\* when the function contains one or more direct self-recursive call sites,
\* and no recursion point otherwise, in the standalone cognitive scorer and
\* in the combined scorer.
C5_OneRecursionPoint ==
  \A i \in DOMAIN emitted :
    LET expected == IF emitted[i].fn.sites > 0 THEN 1 ELSE 0
        standalone == Select(emitted[i].cog.points, {"recursion"})
        combined == Select(emitted[i].comb.cognitivePoints, {"recursive call"})
    IN /\ Len(standalone) = expected /\ AllFlat(standalone)
       /\ Len(combined) = expected /\ AllFlat(combined)

C5_Witness ==
  \E i \in DOMAIN emitted :
    /\ emitted[i].fn.sites >= 2
    /\ Len(Select(emitted[i].cog.points, {"recursion"})) = 1

\* C6: a function's report has one flat point (amount 1, no nesting term)
\* per else-if and one per plain else of the function, whatever the nesting
\* level where they stand, in the standalone cognitive scorer and in the
\* combined scorer.
C6_FlatElse ==
  \A i \in DOMAIN emitted :
    LET f == emitted[i].fn
        cogPoints == emitted[i].cog.points
        combPoints == emitted[i].comb.cognitivePoints
    IN /\ Len(Select(cogPoints, {"else if"})) = f.elseifs
       /\ Len(Select(cogPoints, {"else"})) = f.elses
       /\ AllFlat(Select(cogPoints, {"else if", "else"}))
       /\ Len(Select(combPoints, {"else if"})) = f.elseifs
       /\ Len(Select(combPoints, {"else"})) = f.elses
       /\ AllFlat(Select(combPoints, {"else if", "else"}))

C6_Witness ==
  \E i \in DOMAIN emitted :
    /\ emitted[i].fn.elseifs >= 1
    /\ emitted[i].fn.elses >= 1
    /\ emitted[i].fn.elseDepth >= 1

EnteredLogical ==
  /\ Len(path') = Len(path) + 1
  /\ Last(path').type = "LogicalExpression"
  /\ Last(path').operator \in DEFAULT_VALUE_OPERATORS
  /\ Last(path').left # ""
  /\ Last(path').spine = <<>>
  /\ cog # <<>>

CognitiveAdded == Sum(Last(cog').points) - Sum(Last(cog).points)
CyclomaticAdded == Sum(Last(cyc').points) - Sum(Last(cyc).points)
CombinedCognitiveAdded ==
  Sum(Last(comb').cognitivePoints) - Sum(Last(comb).cognitivePoints)
CombinedCyclomaticAdded ==
  Sum(Last(comb').cyclomaticPoints) - Sum(Last(comb).cyclomaticPoints)

\* C8: entering `a || []` or `a ?? []` as the initial value of a declarator,
\* or `x || []` or `x ?? []` as the right side of an assignment to x, adds 0
\* cognitive and 1 cyclomatic; entering `a || compute()` or `a ?? compute()`
\* as the initial value of a declarator adds 1 cognitive and 1 cyclomatic.
C8_DefaultValue ==
  [][EnteredLogical =>
       LET node == Last(path')
           parent == Last(path)
           declared == parent.type = "VariableDeclarator"
           selfAssigned == /\ parent.type = "AssignmentExpression"
                           /\ parent.operator = "="
                           /\ node.left = parent.left
       IN /\ (declared \/ selfAssigned) /\ node.rightEnd = "ArrayExpression" =>
               /\ CognitiveAdded = 0 /\ CombinedCognitiveAdded = 0
               /\ CyclomaticAdded = 1 /\ CombinedCyclomaticAdded = 1
          /\ declared /\ node.rightEnd = "CallExpression" =>
               /\ CognitiveAdded = 1 /\ CombinedCognitiveAdded = 1
               /\ CyclomaticAdded = 1 /\ CombinedCyclomaticAdded = 1]_vars

C8_Witness ==
  /\ Len(path) >= 3
  /\ Parent.type = "LogicalExpression"
  /\ Parent.operator = "??"
  /\ Parent.left = "x"
  /\ Parent.rightEnd = "ArrayExpression"
  /\ path[Len(path) - 1].type = "AssignmentExpression"
  /\ path[Len(path) - 1].operator = "="
  /\ Last(cog).points = <<>>
  /\ Len(Last(cyc).points) = 1

\* C9: the cyclomatic total of a function is 1 plus the number of its
\* decision points (if, loop, switch case with a test, catch, ternary,
\* logical operator, logical assignment operator), in the standalone
\* cyclomatic scorer and in the combined scorer, wherever the decision
\* points are nested, excluded from the cognitive score or not, with or
\* without recursion.
C9_CyclomaticFormula ==
  \A i \in DOMAIN emitted :
    /\ emitted[i].cyc.total = 1 + emitted[i].fn.decisions
    /\ emitted[i].comb.cyclomatic = 1 + emitted[i].fn.decisions

C9_Witness ==
  \E i \in DOMAIN emitted :
    /\ emitted[i].fn.decisions = 3
    /\ \E k \in DOMAIN emitted[i].fn.structural : emitted[i].fn.structural[k][2] = 1
    /\ emitted[i].cyc.total = 4
    /\ emitted[i].cog.total > emitted[i].fn.decisions

\* C10 as stated: a function without decision constructs is reported with
\* cyclomatic total 1 and cognitive total 0.
C10_NoConstructs ==
  \A i \in DOMAIN emitted :
    emitted[i].fn.constructs = 0 =>
      /\ emitted[i].cyc.total = 1 /\ emitted[i].comb.cyclomatic = 1
      /\ emitted[i].cog.total = 0 /\ emitted[i].comb.cognitive = 0

\* C10 amended: a function without decision constructs is reported with
\* cyclomatic total 1, and with cognitive total 0 when it also has no
\* function nested directly in it, no direct self-recursive call and no
\* labeled break or continue.
C10_NoConstructsNoFlat ==
  \A i \in DOMAIN emitted :
    emitted[i].fn.constructs = 0 =>
      /\ emitted[i].cyc.total = 1 /\ emitted[i].comb.cyclomatic = 1
      /\ emitted[i].fn.nested = 0 /\ emitted[i].fn.sites = 0 /\ emitted[i].fn.jumps = 0 =>
           emitted[i].cog.total = 0 /\ emitted[i].comb.cognitive = 0

C10_Witness ==
  \E i \in DOMAIN emitted :
    /\ emitted[i].fn.constructs = 0
    /\ emitted[i].fn.nested = 0 /\ emitted[i].fn.sites = 0 /\ emitted[i].fn.jumps = 0
    /\ emitted[i].fn.ref = <<1, "body", 1>>
    /\ emitted[i].cog.total = 0
    /\ emitted[i].cyc.total = 1
    /\ Len(path) = 1 /\ Parent.n = 1 /\ nextId >= 3

(***************************************************************************)
(* C11: for any point list, total and options, no two candidates in the    *)
(* list returned by findExtractionCandidates have overlapping line ranges  *)
(* [startLine, endLine].                                                   *)
(***************************************************************************)
C11_NoOverlap ==
  extraction.stage = "candidates" =>
    \A i, j \in 1 .. Len(extraction.candidates) :
      i # j =>
        LET a == extraction.candidates[i]
            b == extraction.candidates[j]
        IN a.endLine < b.startLine \/ b.endLine < a.startLine

\* Two candidates are returned, the first of them over more than one line.
C11_Witness ==
  /\ extraction.stage = "candidates"
  /\ Len(extraction.candidates) = 2
  /\ extraction.candidates[1].endLine > extraction.candidates[1].startLine

(***************************************************************************)
(* Flow analysis: what the analyzed function contains, told from its body  *)
(* and its scope alone.                                                    *)
(***************************************************************************)
Analyzed == extraction.stage \in {"flow", "suggestion"}

InRange(line) ==
  line >= extraction.candidate.startLine /\ line <= extraction.candidate.endLine

BodyNodes == {extraction.body[k] : k \in 1 .. Len(extraction.body)}

ScopeVariables == {extraction.scope[k] : k \in 1 .. Len(extraction.scope)}

\* A property write, a member update or a call of a mutating method.
MemberMutations ==
  {n \in BodyNodes :
     /\ n.target = "MemberExpression"
     /\ \/ n.type \in {"AssignmentExpression", "UpdateExpression"}
        \/ n.type = "CallExpression" /\ n.property \in MUTATING_METHODS}

ReportedMutation(name, line) ==
  \E k \in 1 .. Len(extraction.flow.mutations) :
    /\ extraction.flow.mutations[k].variable = name
    /\ extraction.flow.mutations[k].mutationLine = line

(***************************************************************************)
(* C12: every property write, member update or mutating-method call that   *)
(* lies inside the candidate range and whose member chain is rooted at a   *)
(* variable declared outside the range is reported as a mutation of that   *)
(* variable.                                                               *)
(***************************************************************************)
C12_MutationReported ==
  Analyzed =>
    \A n \in MemberMutations, v \in ScopeVariables :
      (InRange(n.line) /\ n.root = v.name /\ ~InRange(v.declarationLine))
        => ReportedMutation(v.name, n.line)

(***************************************************************************)
(* C12, amended: every property write, member update or mutating-method    *)
(* call that lies inside the candidate range and outside every nested      *)
(* function literal, and whose member chain is rooted at a tracked         *)
(* variable declared outside the range, is reported as a mutation of that  *)
(* variable.                                                               *)
(***************************************************************************)
C12_MutationReportedOutsideLiterals ==
  Analyzed =>
    \A n \in MemberMutations, v \in ScopeVariables :
      (/\ InRange(n.line)
       /\ n.within.type = "none"
       /\ n.root = v.name
       /\ ~InRange(v.declarationLine))
        => ReportedMutation(v.name, n.line)

\* A member update of x in the range, x declared after the range, reported.
C12_Witness ==
  /\ Analyzed
  /\ \E n \in MemberMutations, v \in ScopeVariables :
       /\ n.type = "UpdateExpression"
       /\ InRange(n.line)
       /\ n.within.type = "none"
       /\ n.root = v.name
       /\ v.declarationLine > extraction.candidate.endLine
       /\ ReportedMutation(v.name, n.line)

(***************************************************************************)
(* C13: no mutation entry is ever reported for a variable whose            *)
(* declaration line lies inside the candidate range, whether the write is  *)
(* a direct assignment, a property write, a member update or a             *)
(* mutating-method call.                                                   *)
(***************************************************************************)
C13_NoMutationOfLocals ==
  Analyzed =>
    \A k \in 1 .. Len(extraction.flow.mutations), v \in ScopeVariables :
      extraction.flow.mutations[k].variable = v.name => ~InRange(v.declarationLine)

\* A mutating-method call on x in the range, x declared in the range, and
\* no mutation reported.
C13_Witness ==
  /\ Analyzed
  /\ \E n \in MemberMutations, v \in ScopeVariables :
       /\ n.type = "CallExpression"
       /\ InRange(n.line)
       /\ n.within.type = "none"
       /\ n.root = v.name
       /\ InRange(v.declarationLine)
  /\ extraction.flow.mutations = <<>>

(***************************************************************************)
(* C14: if a mutable variable declared before the candidate range is       *)
(* referenced from inside a function literal that lies entirely within the *)
(* range, the flow analysis built from the function's tracked variables    *)
(* contains exactly one closure entry for that variable.                   *)
(***************************************************************************)
C14_ClosureRecorded ==
  Analyzed =>
    \A v \in ScopeVariables :
      (/\ v.declarationType # "const"
       /\ v.declarationLine < extraction.candidate.startLine
       /\ \E n \in BodyNodes :
            /\ n.root = v.name
            /\ n.within.type \in {"FunctionExpression", "ArrowFunctionExpression"}
            /\ InRange(n.within.startLine)
            /\ InRange(n.within.endLine))
        => Cardinality({k \in 1 .. Len(extraction.flow.closures) :
                          extraction.flow.closures[k].variable = v.name}) = 1

Names(list) == {list[k].name : k \in 1 .. Len(list)}

TrackedVariables == {extraction.variables[k] : k \in 1 .. Len(extraction.variables)}

TrackedReferences(v) == {v.references[k] : k \in 1 .. Len(v.references)}

(***************************************************************************)
(* C19: for a candidate range, a tracked variable is classified input      *)
(* exactly when it is declared strictly before the range start and has a   *)
(* read or read-write reference inside the range, output exactly when it   *)
(* is declared inside the range and referenced after the range end, and    *)
(* internal exactly when it is declared inside the range and never         *)
(* referenced after the range end.                                         *)
(***************************************************************************)
C19_Classification ==
  Analyzed =>
    \A v \in TrackedVariables :
      LET readInside == \E r \in TrackedReferences(v) :
                          r.type \in {"read", "readwrite"} /\ InRange(r.line)
          usedAfter == \E r \in TrackedReferences(v) : r.line > extraction.candidate.endLine
      IN /\ v.name \in Names(extraction.flow.inputs)
              <=> (v.declarationLine < extraction.candidate.startLine /\ readInside)
         /\ v.name \in Names(extraction.flow.outputs)
              <=> (InRange(v.declarationLine) /\ usedAfter)
         /\ v.name \in Names(extraction.flow.internalOnly)
              <=> (InRange(v.declarationLine) /\ ~usedAfter)

\* x is declared in the range, written after it, and classified output.
C19_Witness ==
  /\ Analyzed
  /\ Names(extraction.flow.outputs) = {"x"}
  /\ \E v \in TrackedVariables, r \in UNION {TrackedReferences(w) : w \in TrackedVariables} :
       /\ InRange(v.declarationLine)
       /\ r.type = "write"
       /\ r.line > extraction.candidate.endLine

\* The return statements in the range and in no nested function literal,
\* as indices of the body.
ReturnsInRange ==
  {k \in 1 .. Len(extraction.body) :
     /\ extraction.body[k].type = "ReturnStatement"
     /\ InRange(extraction.body[k].line)
     /\ extraction.body[k].within.type = "none"}

(***************************************************************************)
(* C20: the early-return flag of a candidate is true exactly when the      *)
(* range (nested function literals excluded) contains more than one return *)
(* statement, or contains exactly one return statement that is not within  *)
(* one line of the range's end line.                                       *)
(***************************************************************************)
C20_EarlyReturnFlag ==
  Analyzed =>
    (extraction.flow.hasEarlyReturn <=>
       \/ Cardinality(ReturnsInRange) > 1
       \/ /\ Cardinality(ReturnsInRange) = 1
          /\ \E k \in ReturnsInRange :
               extraction.candidate.endLine - extraction.body[k].line > 1)

\* One return statement, two lines before the end of the range, sets the
\* flag; a second one is in a function literal and does not count.
C20_Witness ==
  /\ Analyzed
  /\ extraction.flow.hasEarlyReturn
  /\ Cardinality(ReturnsInRange) = 1
  /\ Len(extraction.body) = 2

Suggested == extraction.stage = "suggestion"

(***************************************************************************)
(* C16: whenever the flow analysis of a candidate has the self-reference   *)
(* (this) flag set, the suggestion created for that candidate contains a   *)
(* this-reference issue.                                                   *)
(***************************************************************************)
C16_ThisIssue ==
  (Suggested /\ extraction.flow.hasThisReference) =>
    \E k \in 1 .. Len(extraction.suggestion.issues) :
      extraction.suggestion.issues[k].type = "this-reference"

(***************************************************************************)
(* C17: a suggestion carries a suggested signature only if its confidence  *)
(* is high or medium and its issue list is empty.                          *)
(***************************************************************************)
C17_SignatureOnlyIfClean ==
  (Suggested /\ extraction.suggestion.suggestedSignature # <<>>) =>
    /\ extraction.suggestion.confidence \in {"high", "medium"}
    /\ extraction.suggestion.issues = <<>>

\* A suggestion of medium confidence with a signature of four parameters.
C17_Witness ==
  /\ Suggested
  /\ extraction.suggestion.suggestedSignature # <<>>
  /\ extraction.suggestion.confidence = "medium"
  /\ Len(extraction.suggestion.suggestedSignature[1][2]) = 4

(***************************************************************************)
(* C18: confidence is low exactly when the candidate has more than 5       *)
(* inputs, more than 2 outputs, any mutation or any closure; otherwise it  *)
(* is medium exactly when it has more than 3 inputs, more than 1 output or *)
(* an early return; otherwise it is high.                                  *)
(***************************************************************************)
C18_Confidence ==
  Suggested =>
    LET flow == extraction.flow
        low == \/ Len(flow.inputs) > 5
               \/ Len(flow.outputs) > 2
               \/ flow.mutations # <<>>
               \/ flow.closures # <<>>
        medium == \/ Len(flow.inputs) > 3
                  \/ Len(flow.outputs) > 1
                  \/ flow.hasEarlyReturn
    IN /\ extraction.suggestion.confidence = "low" <=> low
       /\ ~low => (extraction.suggestion.confidence = "medium" <=> medium)
       /\ (~low /\ ~medium) => extraction.suggestion.confidence = "high"

\* Five inputs and two outputs, nothing else: medium, one short of low.
C18_Witness ==
  /\ Suggested
  /\ Len(extraction.flow.inputs) = 5
  /\ Len(extraction.flow.outputs) = 2
  /\ extraction.suggestion.confidence = "medium"

(***************************************************************************)
(* C21: every candidate returned by findExtractionCandidates has a         *)
(* complexity percentage, the rounded share of its points' complexity in   *)
(* the function's total, between the configured minimum and maximum        *)
(* percentage, inclusive.                                                  *)
(***************************************************************************)
C21_PercentageInBounds ==
  extraction.stage = "candidates" =>
    \A k \in 1 .. Len(extraction.candidates) :
      LET candidate == extraction.candidates[k]
          share == 200 * Sum(candidate.points)
          total == extraction.totalComplexity
          options == extraction.options
      IN /\ candidate.complexityPercentage >= options.minComplexityPercentage
         /\ candidate.complexityPercentage <= options.maxComplexityPercentage
         /\ share >= (2 * candidate.complexityPercentage - 1) * total
         /\ share < (2 * candidate.complexityPercentage + 1) * total

\* Of two groups, at 25% and at 50% of the total, only the second is returned.
C21_Witness ==
  /\ extraction.stage = "candidates"
  /\ Len(extraction.points) = 2
  /\ extraction.totalComplexity = 4
  /\ extraction.options.maxCandidates = DEFAULT_MAX_CANDIDATES
  /\ Len(extraction.candidates) = 1
  /\ extraction.candidates[1].complexityPercentage = 50

(***************************************************************************)
(* C30: every returned candidate's line range [startLine, endLine]         *)
(* contains the extent, from start line to end line, of every complexity   *)
(* point assigned to that candidate.                                       *)
(***************************************************************************)
C30_RangeContainsPoints ==
  extraction.stage = "candidates" =>
    \A k \in 1 .. Len(extraction.candidates) :
      LET candidate == extraction.candidates[k]
      IN \A p \in 1 .. Len(candidate.points) :
           /\ candidate.startLine <= candidate.points[p].startLine
           /\ candidate.points[p].endLine <= candidate.endLine

(***************************************************************************)
(* C29: the groups of groupAdjacentPoints are runs of the points in order  *)
(* of start line.  A group's end line is the start line of the point that  *)
(* joined it last, and each point after the first joins the current group  *)
(* exactly when its start line is at most maxLineGap past that end line;   *)
(* otherwise it starts a new group.                                        *)
(***************************************************************************)
C29_Grouping ==
  extraction.stage = "candidates" =>
    LET points == extraction.points
        maxLineGap == extraction.options.maxLineGap
        groups == groupAdjacentPoints(points, maxLineGap)
        inOrder == Flatten([g \in 1 .. Len(groups) |-> groups[g].points])
        before(g) == Len(Flatten([h \in 1 .. g - 1 |-> groups[h].points]))
        groupOf(i) == CHOOSE g \in 1 .. Len(groups) :
                        before(g) < i /\ i <= before(g) + Len(groups[g].points)
        count(seq, p) == Cardinality({k \in 1 .. Len(seq) : seq[k] = p})
    IN /\ Len(inOrder) = Len(points)
       /\ \A k \in 1 .. Len(points) : count(inOrder, points[k]) = count(points, points[k])
       /\ \A i \in 2 .. Len(inOrder) : inOrder[i - 1].startLine <= inOrder[i].startLine
       /\ \A g \in 1 .. Len(groups) :
            /\ groups[g].points # <<>>
            /\ groups[g].startLine = groups[g].points[1].startLine
            /\ groups[g].endLine = Last(groups[g].points).startLine
       /\ \A i \in 2 .. Len(inOrder) :
            LET current == groups[groupOf(i - 1)]
                endLine == inOrder[i - 1].startLine
            IN /\ before(groupOf(i - 1)) + Len(current.points) = i - 1 => endLine = current.endLine
               /\ groupOf(i) = groupOf(i - 1) <=> inOrder[i].startLine <= endLine + maxLineGap
               /\ groupOf(i) # groupOf(i - 1) => groupOf(i) = groupOf(i - 1) + 1

\* A point that starts exactly maxLineGap lines past the start of the one
\* before it has joined its group, and the group is returned as a candidate.
C29_Witness ==
  /\ extraction.stage = "candidates"
  /\ extraction.options.maxLineGap = DEFAULT_MAX_LINE_GAP
  /\ Len(extraction.candidates) = 1
  /\ Len(extraction.candidates[1].points) = 2
  /\ extraction.candidates[1].points[2].startLine =
       extraction.candidates[1].points[1].startLine + DEFAULT_MAX_LINE_GAP

(***************************************************************************)
(* C28: of the candidates within the percentage bounds, taken in           *)
(* descending order of complexity (equal ones in their order of start      *)
(* line), a candidate is accepted exactly when fewer than maxCandidates    *)
(* are accepted before it and it overlaps none of those.  The accepted     *)
(* candidates, at most maxCandidates of them, are returned in ascending    *)
(* order of start line.                                                    *)
(***************************************************************************)
C28_Selection ==
  (extraction.stage = "candidates" /\ extraction.points # <<>>) =>
    LET inBounds == filteredCandidates(extraction.points, extraction.totalComplexity,
                                       extraction.options)
        returned == extraction.candidates
        maxCandidates == extraction.options.maxCandidates
        accepted == {i \in 1 .. Len(inBounds) :
                       \E k \in 1 .. Len(returned) : returned[k] = inBounds[i]}
        before(j, i) == \/ inBounds[j].complexity > inBounds[i].complexity
                        \/ inBounds[j].complexity = inBounds[i].complexity /\ j < i
        acceptedBefore(i) == {j \in accepted : before(j, i)}
        overlap(a, b) == ~(a.endLine < b.startLine \/ b.endLine < a.startLine)
    IN /\ Len(returned) <= maxCandidates
       /\ Len(returned) = Cardinality(accepted)
       /\ \A k \in 1 .. Len(returned) : \E i \in accepted : returned[k] = inBounds[i]
       /\ \A k \in 2 .. Len(returned) : returned[k - 1].startLine <= returned[k].startLine
       /\ \A i \in 1 .. Len(inBounds) :
            i \in accepted <=>
              /\ Cardinality(acceptedBefore(i)) < maxCandidates
              /\ \A j \in acceptedBefore(i) : ~overlap(inBounds[j], inBounds[i])

\* Of two overlapping candidates within the bounds, the more complex one,
\* which starts later, is the one returned.
C28_Witness ==
  /\ extraction.stage = "candidates"
  /\ extraction.options.maxCandidates = DEFAULT_MAX_CANDIDATES
  /\ Len(extraction.points) = 2
  /\ extraction.points[1].startLine < extraction.points[2].startLine
  /\ extraction.points[1].endLine >= extraction.points[2].startLine
  /\ extraction.points[1].complexity < extraction.points[2].complexity
  /\ Len(extraction.candidates) = 1
  /\ extraction.candidates[1].points = <<extraction.points[2]>>
  /\ extraction.candidates[1].complexityPercentage = 67

(***************************************************************************)
(* C22: whenever a top-level function is entered, each visitor's scope     *)
(* stack is empty and its function-nesting depth counter is 0, whatever    *)
(* was walked before with the same visitor; the function starts with one   *)
(* new scope and the counter at 1.                                         *)
(***************************************************************************)
C22_TopLevelStartsFresh ==
  [][(Len(path) = 1 /\ Len(path') = 2 /\ Last(path').type \in FunctionTypes) =>
       LET name == getFunctionName(Last(path'), Parent)
       IN /\ cyc = <<>> /\ cog = <<>> /\ comb = <<>>
          /\ cogLevel = 0 /\ combLevel = 0
          /\ cyc' = <<cyc_createScope(name)>>
          /\ cog' = <<cog_createScope(name)>>
          /\ comb' = <<comb_createScope(name)>>
          /\ cogLevel' = 1 /\ combLevel' = 1]_vars

\* A second top-level function is open after a first one, which held a
\* nested function, was reported.
C22_Witness ==
  /\ Len(path) = 2
  /\ Parent.type \in FunctionTypes
  /\ Parent.ref = <<1, "body", 2>>
  /\ emitted # <<>>
  /\ emitted[1].fn.ref = <<1, "body", 1>>
  /\ emitted[1].fn.nested = 1
  /\ Len(cog) = 1 /\ cogLevel = 1

(***************************************************************************)
(* C26: at every moment of the walk each visitor's scope stack holds       *)
(* exactly one scope for each function that is entered and not yet left,   *)
(* in the order the functions were entered, the innermost on top; it is    *)
(* empty whenever the walk is outside every function.                      *)
(***************************************************************************)
OpenFunctions ==
  LET isFunction(i) == path[i].type \in FunctionTypes
  IN SelectSeq([i \in 1 .. Len(path) |-> i], isFunction)

OpenFunctionNames ==
  [k \in 1 .. Len(OpenFunctions) |->
     getFunctionName(path[OpenFunctions[k]], path[OpenFunctions[k] - 1])]

C26_ScopePerOpenFunction ==
  /\ [k \in 1 .. Len(cyc) |-> cyc[k].name] = OpenFunctionNames
  /\ [k \in 1 .. Len(cog) |-> cog[k].name] = OpenFunctionNames
  /\ [k \in 1 .. Len(comb) |-> comb[k].name] = OpenFunctionNames
  /\ OpenFunctions = <<>> => cyc = <<>> /\ cog = <<>> /\ comb = <<>>

\* An arrow function is open inside a declared function, after another
\* function was entered and left.
C26_Witness ==
  /\ emitted # <<>>
  /\ Len(OpenFunctions) = 2
  /\ OpenFunctionNames = <<"f", "<arrow>">>
  /\ Len(cyc) = 2 /\ Len(cog) = 2 /\ Len(comb) = 2

(***************************************************************************)
(* C27: a step of the walk reports results exactly when it leaves a        *)
(* function, and then one result of each visitor, for that function: its   *)
(* points are the points of the function's scope at that moment (with the  *)
(* recursion point that the exit itself adds), its total is their sum (and *)
(* the base complexity), and the scope leaves the stack with the step, so  *)
(* that nothing is added to it afterwards.  No other step reports or       *)
(* changes a result.                                                       *)
(***************************************************************************)
C27_ResultAtExitOnly ==
  [][IF Len(path') < Len(path) /\ Parent.type \in FunctionTypes
     THEN /\ Len(emitted') = 1
          /\ emitted'[1].fn.ref = Parent.ref
          /\ emitted'[1].cyc.points = Last(cyc).points
          /\ emitted'[1].cyc.total = BASE_FUNCTION_COMPLEXITY + Sum(Last(cyc).points)
          /\ \/ emitted'[1].cog.points = Last(cog).points
             \/ /\ Last(cog).hasRecursiveCall
                /\ Front(emitted'[1].cog.points) = Last(cog).points
          /\ emitted'[1].cog.total = Sum(emitted'[1].cog.points)
          /\ emitted'[1].comb.cyclomaticPoints = Last(comb).cyclomaticPoints
          /\ emitted'[1].comb.cognitivePoints = Last(comb).cognitivePoints
          /\ emitted'[1].comb.cyclomatic =
               BASE_FUNCTION_COMPLEXITY + Sum(Last(comb).cyclomaticPoints)
          /\ emitted'[1].comb.cognitive = Sum(Last(comb).cognitivePoints)
          /\ Len(cyc') = Len(cyc) - 1
          /\ Len(cog') = Len(cog) - 1
          /\ Len(comb') = Len(comb) - 1
     ELSE emitted' = emitted]_vars

\* A nested function was reported, and its enclosing function has taken a
\* further point since: the reported result stands as it was.
C27_Witness ==
  /\ emitted # <<>>
  /\ emitted[1].fn.ref # <<1, "body", 1>>
  /\ emitted[1].cyc.total = 2
  /\ Len(cyc) = 1
  /\ Len(Last(cyc).points) = 1
  /\ Len(Last(cog).points) = 2

(***************************************************************************)
(* C25: the nestingLevel of every scope of the cognitive and the combined  *)
(* visitor is never negative, and it is 0 whenever the scope's function    *)
(* has no open child, as it is at the moment the function is left.         *)
(***************************************************************************)
C25_NestingLevelBalanced ==
  /\ \A k \in 1 .. Len(cog) : cog[k].nestingLevel >= 0
  /\ \A k \in 1 .. Len(comb) : comb[k].nestingLevel >= 0
  /\ Parent.type \in FunctionTypes =>
       Last(cog).nestingLevel = 0 /\ Last(comb).nestingLevel = 0

(***************************************************************************)
(* C24: when a node that is marked as a nesting region of the current      *)
(* scope is entered, that scope's nestingLevel goes up by exactly one; and *)
(* when a node that is marked as a nesting region of a scope is left, that *)
(* scope's nestingLevel goes down by exactly one and the node leaves the   *)
(* scope's set of regions.  (Of the nodes that have children; both the     *)
(* cognitive and the combined visitor.)                                    *)
(***************************************************************************)
C24_RegionCountedOnce ==
  [][/\ Len(path') = Len(path) + 1 =>
          LET node == Last(path')
          IN /\ (cog # <<>> /\ node.ref \in Last(cog).nestingNodes) =>
                  cog'[Len(cog)].nestingLevel = Last(cog).nestingLevel + 1
             /\ (comb # <<>> /\ node.ref \in Last(comb).nestingNodes) =>
                  comb'[Len(comb)].nestingLevel = Last(comb).nestingLevel + 1
     /\ Len(path') = Len(path) - 1 =>
          LET node == Last(path)
          IN /\ \A k \in 1 .. Len(cog) :
                  node.ref \in cog[k].nestingNodes =>
                    /\ k <= Len(cog')
                    /\ cog'[k].nestingLevel = cog[k].nestingLevel - 1
                    /\ node.ref \notin cog'[k].nestingNodes
             /\ \A k \in 1 .. Len(comb) :
                  node.ref \in comb[k].nestingNodes =>
                    /\ k <= Len(comb')
                    /\ comb'[k].nestingLevel = comb[k].nestingLevel - 1
                    /\ node.ref \notin comb'[k].nestingNodes]_vars

(***************************************************************************)
(* The two example functions, told from the reported result: every         *)
(* decision construct of the function is a logical expression that no      *)
(* pattern exclusion covers, and the cyclomatic points name the operators  *)
(* and the places of the expressions in the tree.                          *)
(***************************************************************************)
OnlyLogical(frame, n) ==
  /\ frame.constructs = n /\ frame.ops = n
  /\ frame.excluded = 0 /\ frame.nested = 0 /\ frame.sites = 0 /\ frame.jumps = 0

\* a && b && c && d: three && expressions, each the left operand of the next.
IsLogicalChain ==
  /\ emitted # <<>>
  /\ OnlyLogical(emitted[1].fn, 3)
  /\ Len(emitted[1].cyc.points) = 3
  /\ \A k \in 1 .. 3 : emitted[1].cyc.points[k].message[3] = "&&"
  /\ RoleOf([ref |-> emitted[1].cyc.points[1].location]) = "body"
  /\ \A k \in 2 .. 3 :
       /\ RoleOf([ref |-> emitted[1].cyc.points[k].location]) = "left"
       /\ emitted[1].cyc.points[k].location[1] = emitted[1].cyc.points[k - 1].location[1] + 1

\* (a && b) || c: an || expression whose left operand is an && expression.
IsMixedLogical ==
  /\ emitted # <<>>
  /\ OnlyLogical(emitted[1].fn, 2)
  /\ Len(emitted[1].cyc.points) = 2
  /\ emitted[1].cyc.points[1].message[3] = "||"
  /\ emitted[1].cyc.points[2].message[3] = "&&"
  /\ RoleOf([ref |-> emitted[1].cyc.points[1].location]) = "body"
  /\ RoleOf([ref |-> emitted[1].cyc.points[2].location]) = "left"

(***************************************************************************)
(* C23 as stated: a function whose only decision constructs are the chain  *)
(* a && b && c && d scores cyclomatic 5 and cognitive 1, and one whose     *)
(* only decision constructs are (a && b) || c scores cyclomatic 4 and      *)
(* cognitive 3.                                                            *)
(***************************************************************************)
C23_ExamplesAsStated ==
  /\ IsLogicalChain => emitted[1].cyc.total = 5 /\ emitted[1].cog.total = 1
  /\ IsMixedLogical => emitted[1].cyc.total = 4 /\ emitted[1].cog.total = 3

(***************************************************************************)
(* C23 amended: the chain a && b && c && d scores cyclomatic 4 (the base   *)
(* and one per operator) and cognitive 1; (a && b) || c scores cyclomatic  *)
(* 3 and cognitive 2 (one for the expression, one for the change of        *)
(* operator).  The combined visitor reports the same totals.               *)
(***************************************************************************)
C23_Examples ==
  /\ IsLogicalChain =>
       /\ emitted[1].cyc.total = 4 /\ emitted[1].cog.total = 1
       /\ emitted[1].comb.cyclomatic = 4 /\ emitted[1].comb.cognitive = 1
  /\ IsMixedLogical =>
       /\ emitted[1].cyc.total = 3 /\ emitted[1].cog.total = 2
       /\ emitted[1].comb.cyclomatic = 3 /\ emitted[1].comb.cognitive = 2

\* The chain of three && expressions was walked and its function reported.
C23_Witness ==
  /\ IsLogicalChain
  /\ emitted[1].cyc.total = 4
  /\ emitted[1].cog.total = 1

====
